---- MODULE Spec2Model ----
(***************************************************************************)
(* Verification model of the self-driving-car "brain": the ball trajectory *)
(* lookup (helpers/ball.rs, plan/ball.rs), the Wavedash maneuver state     *)
(* machine (behavior/movement/wavedash.rs), the behavior task engine that  *)
(* runs the behaviors of the repository, the per-tick Scenario             *)
(* (strategy/scenario.rs) and the straight-line route planner              *)
(* (routing/plan/ground_straight.rs).                                      *)
(*                                                                         *)
(* Times are integers.  In the trajectory part one unit is one prediction  *)
(* frame (1/60 s); in the maneuver part one unit is one physics tick       *)
(* (1/120 s).                                                              *)
(***************************************************************************)
EXTENDS Integers, Sequences, FiniteSets, TLC

VARIABLES
    frames,     \* BallTrajectory.frames of the trajectory under test
    prev,       \* the trajectory hacky_expensive_slice was last applied to
    query,      \* the last trajectory operation and its argument
    result,     \* what that operation returned
    wd,         \* the Wavedash task: phase_start_time, starting_pitch, phase
    wdCtx,      \* the Context of the current tick, as far as Wavedash reads it
    wdPc,       \* "idle" between ticks, "exec" inside execute_old, "done" once popped
    wdAction,   \* the Action the last call of execute_old returned
    wdEntered,  \* the game time at which the current phase was entered
    wdDepth,    \* how often the current call of execute_old has re-entered itself
    stack,      \* the Runner's task stack; the last element is the running task
    snap,       \* the snapshot (Context) of the tick being resolved
    rpc,        \* the Runner's position: "idle", "interrupt" or "resolve"
    command,    \* the command emitted in this tick, if any
    lastAction, \* the Action the last execute returned, and the kind of its task
    signal,     \* what the next execute of a parent is told about its child
    open,       \* the number of Calls not yet matched by a Return or Abort
    visited,    \* the stacks this tick's resolution has executed so far
    stuck,      \* this tick's resolution came back to a stack it already executed
    world,      \* the packet of the tick: what a blitz of each car to the ball finds
    scn,        \* the Scenario of the tick: its LazyCells, and how often each was computed
    lastRet,    \* the last call of a Scenario accessor and what it returned
    planCtx,    \* the PlanningContext and the planner's fields of the plan under test
    planned,    \* the last RoutePlanner::plan call and the Result it returned
    dodgeCalc,  \* the StraightDodgeCalculator under test
    dodgeOut,   \* the last dodge search and what it collected and chose
    brainIn,    \* what a tick of the brain works from
    brainOut,   \* how the last Brain::tick ended, and the command it returned
    sbt,        \* the SameBallTrajectory rule: its recorded prediction
    sbtCtx,     \* the game time and the ball prediction of the tick
    sbtOut,     \* the last execute_old of the rule: the rule before, the action returned
    tepidCtx,   \* what TepidHit and time_wasting_hit work from
    tepidOut,   \* the last call of TepidHit::execute or time_wasting_hit and its result
    stepIn,     \* one call of iter_step_by
    stepOut,    \* what the call yielded
    blitzCtx,   \* what BlitzToLocation reads of the tick
    blitzOut,   \* what its execute_old did
    pathStart,  \* the CarState handed to avoid_smacking_goal_wall_waypoint
    pathOut,    \* what avoid_smacking_goal_wall_waypoint returned
    simIn,      \* the trajectory and the car handed to simulate_ball_blitz
    simOut      \* what simulate_ball_blitz examined and returned

trajVars == <<frames, prev, query, result>>

wdVars == <<wd, wdCtx, wdPc, wdAction, wdEntered, wdDepth>>

runVars == <<stack, snap, rpc, command, lastAction, signal, open, visited, stuck>>

scnVars == <<world, scn, lastRet>>

planVars == <<planCtx, planned>>

vars == <<frames, prev, query, result,
          wd, wdCtx, wdPc, wdAction, wdEntered, wdDepth,
          stack, snap, rpc, command, lastAction, signal, open, visited, stuck,
          world, scn, lastRet, planCtx, planned,
    dodgeCalc, dodgeOut,
    brainIn, brainOut,
    sbt, sbtCtx, sbtOut,
    tepidCtx, tepidOut,
    stepIn, stepOut,
    blitzCtx, blitzOut,
    pathStart, pathOut,
    simIn, simOut>>

\* What the operations of one part leave alone.
notTraj == <<wd, wdCtx, wdPc, wdAction, wdEntered, wdDepth,
            stack, snap, rpc, command, lastAction, signal, open, visited, stuck,
            world, scn, lastRet, planCtx, planned,
    dodgeCalc, dodgeOut,
    brainIn, brainOut,
    sbt, sbtCtx, sbtOut,
    tepidCtx, tepidOut,
    stepIn, stepOut,
    blitzCtx, blitzOut,
    pathStart, pathOut,
    simIn, simOut>>

notWd == <<frames, prev, query, result,
          stack, snap, rpc, command, lastAction, signal, open, visited, stuck,
          world, scn, lastRet, planCtx, planned,
    dodgeCalc, dodgeOut,
    brainIn, brainOut,
    sbt, sbtCtx, sbtOut,
    tepidCtx, tepidOut,
    stepIn, stepOut,
    blitzCtx, blitzOut,
    pathStart, pathOut,
    simIn, simOut>>

notRun == <<frames, prev, query, result,
           wd, wdCtx, wdPc, wdAction, wdEntered, wdDepth,
           world, scn, lastRet, planCtx, planned,
    dodgeCalc, dodgeOut,
    brainIn, brainOut,
    sbt, sbtCtx, sbtOut,
    tepidCtx, tepidOut,
    stepIn, stepOut,
    blitzCtx, blitzOut,
    pathStart, pathOut,
    simIn, simOut>>

notScn == <<frames, prev, query, result,
           wd, wdCtx, wdPc, wdAction, wdEntered, wdDepth,
           stack, snap, rpc, command, lastAction, signal, open, visited, stuck,
           planCtx, planned,
    dodgeCalc, dodgeOut,
    brainIn, brainOut,
    sbt, sbtCtx, sbtOut,
    tepidCtx, tepidOut,
    stepIn, stepOut,
    blitzCtx, blitzOut,
    pathStart, pathOut,
    simIn, simOut>>

notPlan == <<frames, prev, query, result,
            wd, wdCtx, wdPc, wdAction, wdEntered, wdDepth,
            stack, snap, rpc, command, lastAction, signal, open, visited, stuck,
            world, scn, lastRet,
    dodgeCalc, dodgeOut,
    brainIn, brainOut,
    sbt, sbtCtx, sbtOut,
    tepidCtx, tepidOut,
    stepIn, stepOut,
    blitzCtx, blitzOut,
    pathStart, pathOut,
    simIn, simOut>>

dodgeVars == <<dodgeCalc, dodgeOut>>

notDodge == <<
    frames, prev, query, result, wd, wdCtx, wdPc, wdAction, wdEntered,
    wdDepth, stack, snap, rpc, command, lastAction, signal, open, visited,
    stuck, world, scn, lastRet, planCtx, planned,
    brainIn, brainOut,
    sbt, sbtCtx, sbtOut,
    tepidCtx, tepidOut,
    stepIn, stepOut,
    blitzCtx, blitzOut,
    pathStart, pathOut,
    simIn, simOut>>

brainVars == <<brainIn, brainOut>>

notBrain == <<
    frames, prev, query, result, wd, wdCtx, wdPc, wdAction, wdEntered,
    wdDepth, stack, snap, rpc, command, lastAction, signal, open, visited,
    stuck, world, scn, lastRet, planCtx, planned, dodgeCalc, dodgeOut,
    sbt, sbtCtx, sbtOut,
    tepidCtx, tepidOut,
    stepIn, stepOut,
    blitzCtx, blitzOut,
    pathStart, pathOut,
    simIn, simOut>>

sbtVars == <<sbt, sbtCtx, sbtOut>>

notSbt == <<
    frames, prev, query, result, wd, wdCtx, wdPc, wdAction, wdEntered,
    wdDepth, stack, snap, rpc, command, lastAction, signal, open, visited,
    stuck, world, scn, lastRet, planCtx, planned, dodgeCalc, dodgeOut,
    brainIn, brainOut,
    tepidCtx, tepidOut,
    stepIn, stepOut,
    blitzCtx, blitzOut,
    pathStart, pathOut,
    simIn, simOut>>

tepidVars == <<tepidCtx, tepidOut>>

notTepid == <<
    frames, prev, query, result, wd, wdCtx, wdPc, wdAction, wdEntered,
    wdDepth, stack, snap, rpc, command, lastAction, signal, open, visited,
    stuck, world, scn, lastRet, planCtx, planned, dodgeCalc, dodgeOut,
    brainIn, brainOut, sbt, sbtCtx, sbtOut,
    stepIn, stepOut,
    blitzCtx, blitzOut,
    pathStart, pathOut,
    simIn, simOut>>

stepVars == <<stepIn, stepOut>>

notStep == <<
    frames, prev, query, result, wd, wdCtx, wdPc, wdAction, wdEntered,
    wdDepth, stack, snap, rpc, command, lastAction, signal, open, visited,
    stuck, world, scn, lastRet, planCtx, planned, dodgeCalc, dodgeOut,
    brainIn, brainOut, sbt, sbtCtx, sbtOut, tepidCtx, tepidOut,
    blitzCtx, blitzOut,
    pathStart, pathOut,
    simIn, simOut>>

blitzVars == <<blitzCtx, blitzOut>>

notBlitz == <<
    frames, prev, query, result, wd, wdCtx, wdPc, wdAction, wdEntered,
    wdDepth, stack, snap, rpc, command, lastAction, signal, open, visited,
    stuck, world, scn, lastRet, planCtx, planned, dodgeCalc, dodgeOut,
    brainIn, brainOut, sbt, sbtCtx, sbtOut, tepidCtx, tepidOut, stepIn,
    stepOut,
    pathStart, pathOut,
    simIn, simOut>>

pathVars == <<pathStart, pathOut>>

notPath == <<
    frames, prev, query, result, wd, wdCtx, wdPc, wdAction, wdEntered,
    wdDepth, stack, snap, rpc, command, lastAction, signal, open, visited,
    stuck, world, scn, lastRet, planCtx, planned, dodgeCalc, dodgeOut,
    brainIn, brainOut, sbt, sbtCtx, sbtOut, tepidCtx, tepidOut, stepIn,
    stepOut, blitzCtx, blitzOut,
    simIn, simOut>>

simVars == <<simIn, simOut>>

notSim == <<
    frames, prev, query, result, wd, wdCtx, wdPc, wdAction, wdEntered,
    wdDepth, stack, snap, rpc, command, lastAction, signal, open, visited,
    stuck, world, scn, lastRet, planCtx, planned, dodgeCalc, dodgeOut,
    brainIn, brainOut, sbt, sbtCtx, sbtOut, tepidCtx, tepidOut, stepIn,
    stepOut, blitzCtx, blitzOut, pathStart, pathOut>>

(***************************************************************************)
(* Bounds of the trajectory part.                                          *)
(***************************************************************************)
MaxFrames == 3
MaxT == 4

\* DT of FrameworkBallPrediction::predict, in model time units.
FrameDT == 1

None == 0

(***************************************************************************)
(* BallTrajectory                                                          *)
(***************************************************************************)
\* BallFrame {t, dt, loc, vel}; loc and vel are carried as one opaque
\* payload value.
BallFrame(t, payload) == [t |-> t, dt |-> FrameDT, payload |-> payload]

NonDecreasing(ts) == \A i \in 1 .. Len(ts) - 1 : ts[i] <= ts[i + 1]

\* The trajectories a predictor hands to BallTrajectory::new: non-empty
\* (the assert of new), first frame at t = 0, times ascending.
PredictedTimes ==
    { ts \in UNION { [1 .. n -> 0 .. MaxT] : n \in 1 .. MaxFrames } :
        ts[1] = 0 /\ NonDecreasing(ts) }

\* The assert of BallTrajectory::new failed: no trajectory is made.
Panic == <<[t |-> 0, dt |-> 0, payload |-> 0]>>

BallTrajectory_new_MutNoAssert(fs) == fs

\* BallTrajectory::new: "assert!(!frames.is_empty())".
BallTrajectory_new(fs) == IF fs = <<>> THEN Panic ELSE fs

predict(ts) == [i \in 1 .. Len(ts) |-> BallFrame(ts[i], i)]

\* PREDICT_DURATION of helpers/ball.rs, in seconds.
PREDICT_DURATION == 7

\* rl::PHYSICS_DT is not set in these sources: the forecaster is run with
\* every step of PhysicsDTs (in seconds).
PhysicsDTs == {1, 2, 3}

\* The ball states of a snapshot; chip::Ball::step moves a ball to the next
\* state.
Balls == {1, 2}

Ball_step(ball, DT) == ball + DT

\* "(PREDICT_DURATION / DT).ceil() as usize"
num_frames(DT) == (PREDICT_DURATION + DT - 1) \div DT

\* The while loop of ChipBallPrediction::predict.
RECURSIVE ChipBallPrediction_loop(_, _, _, _)
ChipBallPrediction_loop(fs, t, ball, DT) ==
    IF Len(fs) < num_frames(DT)
    THEN ChipBallPrediction_loop(
             Append(fs, [t |-> t + DT, dt |-> DT, payload |-> Ball_step(ball, DT)]),
             t + DT, Ball_step(ball, DT), DT)
    ELSE fs

\* ChipBallPrediction::predict: the initial frame, then one frame per step.
ChipBallPrediction_predict(ball, DT) ==
    BallTrajectory_new(
        ChipBallPrediction_loop(<<[t |-> 0, dt |-> DT, payload |-> ball]>>, 0, ball, DT))

start(fs) == fs[1]

last(fs) == fs[Len(fs)]

\* slice::binary_search_by_key over the frame times: the index of a frame
\* whose t equals the key ("Ok"), or the insertion point ("Err").
RECURSIVE binary_search_loop(_, _, _, _)
binary_search_loop(fs, key, base, size) ==
    IF size > 1
    THEN LET half == size \div 2
             mid == base + half
         IN binary_search_loop(fs, key,
                               IF fs[mid].t > key THEN base ELSE mid,
                               size - half)
    ELSE base

binary_search_by_key(fs, key) ==
    IF Len(fs) = 0
    THEN [ok |-> FALSE, i |-> 1]
    ELSE LET base == binary_search_loop(fs, key, 1, Len(fs))
         IN IF fs[base].t = key
            THEN [ok |-> TRUE, i |-> base]
            ELSE [ok |-> FALSE, i |-> IF fs[base].t < key THEN base + 1 ELSE base]

at_time_MutOffByOne(fs, t) ==
    LET r == binary_search_by_key(fs, t)
        i == IF r.ok THEN r.i ELSE r.i - 1
    IN IF i >= Len(fs) + 1 \/ i < 1 THEN None ELSE i

\* BallTrajectory::at_time: the index (1-based) of the returned frame, or
\* None.
at_time(fs, t) ==
    LET i == binary_search_by_key(fs, t).i
    IN IF i >= Len(fs) + 1 THEN None ELSE i

at_time_or_last_MutFirst(fs, t) ==
    IF at_time(fs, t) = None THEN 1 ELSE at_time(fs, t)

\* BallTrajectory::at_time_or_last: the index of the returned frame.
at_time_or_last(fs, t) ==
    IF at_time(fs, t) = None THEN Len(fs) ELSE at_time(fs, t)

\* Iterator::position(|f| f.t >= delay): the first such index, or None.
position(fs, delay) ==
    IF \E i \in 1 .. Len(fs) : fs[i].t >= delay
    THEN CHOOSE i \in 1 .. Len(fs) :
            /\ fs[i].t >= delay
            /\ \A j \in 1 .. i - 1 : fs[j].t < delay
    ELSE None

hacky_expensive_slice_MutSwapped(fs, delay) ==
    LET i == position(fs, delay)
    IN IF i # None
       THEN LET start_time == fs[i].t
            IN [k \in 1 .. Len(fs) - i + 1 |->
                    [fs[k + i - 1] EXCEPT !.t = start_time - fs[k + i - 1].t]]
       ELSE <<last(fs)>>

hacky_expensive_slice_MutNoShift(fs, delay) ==
    LET i == position(fs, delay)
    IN IF i # None
       THEN [k \in 1 .. Len(fs) - i + 1 |-> fs[k + i - 1]]
       ELSE <<last(fs)>>

\* BallTrajectory::hacky_expensive_slice.
hacky_expensive_slice(fs, delay) ==
    LET i == position(fs, delay)
    IN IF i # None
       THEN LET start_time == fs[i].t
            IN [k \in 1 .. Len(fs) - i + 1 |->
                    [fs[k + i - 1] EXCEPT !.t = fs[k + i - 1].t - start_time]]
       ELSE <<last(fs)>>

\* The times at_time and hacky_expensive_slice are asked about: before,
\* inside and beyond the span of a trajectory.
Times == -1 .. MaxT + 1

NoQuery == [op |-> "none", t |-> 0]

TrajInit ==
    /\ \E ts \in PredictedTimes : frames = BallTrajectory_new(predict(ts))
    /\ prev = <<>>
    /\ query = NoQuery
    /\ result = None

\* No trajectory is under test.
TrajParked ==
    /\ frames = predict(<<0>>)
    /\ prev = <<>>
    /\ query = NoQuery
    /\ result = None

\* FrameworkBallPrediction::predict: the next tick's trajectory.
Predict ==
    /\ \E ts \in PredictedTimes : frames' = BallTrajectory_new(predict(ts))
    /\ prev' = <<>>
    /\ query' = NoQuery
    /\ result' = None
    /\ UNCHANGED notTraj

\* ChipBallPrediction::predict: the next tick's trajectory, forecast from
\* the snapshot's ball.
ChipPredict ==
    \E ball \in Balls, DT \in PhysicsDTs :
        /\ frames' = ChipBallPrediction_predict(ball, DT)
        /\ prev' = <<>>
        /\ query' = [op |-> "chip_predict", t |-> 0, ball |-> ball, dt |-> DT]
        /\ result' = None
        /\ UNCHANGED notTraj

AtTime ==
    \E t \in Times :
        /\ query' = [op |-> "at_time", t |-> t]
        /\ result' = at_time(frames, t)
        /\ UNCHANGED <<frames, prev>>
        /\ UNCHANGED notTraj

AtTimeOrLast ==
    \E t \in Times :
        /\ query' = [op |-> "at_time_or_last", t |-> t]
        /\ result' = at_time_or_last(frames, t)
        /\ UNCHANGED <<frames, prev>>
        /\ UNCHANGED notTraj

HackyExpensiveSlice ==
    \E delay \in Times :
        /\ query' = [op |-> "hacky_expensive_slice", t |-> delay]
        /\ frames' = BallTrajectory_new(hacky_expensive_slice(frames, delay))
        /\ prev' = frames
        /\ result' = None
        /\ UNCHANGED notTraj

(***************************************************************************)
(* Wavedash (behavior/movement/wavedash.rs)                                *)
(***************************************************************************)
\* Bounds of the maneuver part: the game clock stops at MaxTime, and pitch
\* is one of 0 .. MaxPitch (in units of PI / 360).
MaxTime == 130
MaxPitch == 1

\* The durations of wavedash.rs in physics ticks (1 / rl::PHYSICS_TICK_FREQ).
JUMP_INPUT_TIME == 2
PITCH_ADJUSTMENT_TIME == 8
DODGE_WAIT_TIME == 98
FOLLOW_THROUGH_TIME == 12

\* "pitch_delta >= PI / 360.0", in units of PI / 360.
PITCH_DELTA_MIN == 1

\* "loc().z <= 39.0"
WAIT_LOC_Z == 39

\* Option<f32>: None is the empty sequence, Some(x) is <<x>>.
NoneOpt == <<>>

Some(x) == <<x>>

get_or_insert(opt, x) == IF opt = NoneOpt THEN x ELSE opt[1]

\* How far the game clock moves from one tick to the next.
DTs == {0, 1, 2, 120}

InitTimes == {0, 1}

LocZs == {WAIT_LOC_Z, WAIT_LOC_Z + 1}

VelZs == {-1, 0}

\* What Wavedash reads of the Context: the game clock and the car's flags
\* and physics.
Contexts(time) ==
    [time : {time}, OnGround : BOOLEAN, DoubleJumped : BOOLEAN,
     pitch : 0 .. MaxPitch, loc_z : LocZs, vel_z : VelZs]

Phases == <<"Jump", "Adjust", "Wait", "Dodge", "FollowThrough", "Finished">>

\* PlayerInput { .., ..Default::default() }
PlayerInput(jump, pitch, handbrake, throttle, boost) ==
    [Jump |-> jump, Pitch |-> pitch, Handbrake |-> handbrake,
     Throttle |-> throttle, Boost |-> boost]

Yield(input) == [type |-> "Yield", input |-> input]

Abort == [type |-> "Abort"]

Return == [type |-> "Return"]

NoAction == [type |-> "None"]

\* Wavedash::new()
Wavedash_new ==
    [kind |-> "Wavedash", phase_start_time |-> NoneOpt,
     starting_pitch |-> NoneOpt, phase |-> "Jump", throttle |-> 1]

\* Wavedash::priority
Wavedash_priority_MutIdle == "Idle"

Wavedash_priority == "Force"

\* The outcome of one evaluation of the body of execute_old: either
\* "return self.execute_old(ctx)" (reenter) or the Action returned.
Reenter(w, elapsed) ==
    [w |-> w, reenter |-> TRUE, action |-> NoAction, elapsed |-> elapsed]

Out(w, action, elapsed) ==
    [w |-> w, reenter |-> FALSE, action |-> action, elapsed |-> elapsed]

EnterPhase_MutKeepStart(w, phase, ctx) ==
    [w EXCEPT !.phase = phase]

\* "self.phase = ..; *phase_start_time = ctx.packet.GameInfo.TimeSeconds"
EnterPhase(w, phase, ctx) ==
    [w EXCEPT !.phase = phase, !.phase_start_time = Some(ctx.time)]

execute_old_Jump_MutReturn(w, ctx, elapsed) ==
    IF elapsed >= JUMP_INPUT_TIME
    THEN Reenter(EnterPhase(w, "Adjust", ctx), elapsed)
    ELSE IF ~ctx.OnGround
    THEN Out(w, Return, elapsed)
    ELSE Out(w, Yield(PlayerInput(TRUE, 1, FALSE, w.throttle, FALSE)), elapsed)

execute_old_Jump(w, ctx, elapsed) ==
    IF elapsed >= JUMP_INPUT_TIME
    THEN Reenter(EnterPhase(w, "Adjust", ctx), elapsed)
    ELSE IF ~ctx.OnGround
    THEN Out(w, Abort, elapsed)
    ELSE Out(w, Yield(PlayerInput(TRUE, 1, FALSE, w.throttle, FALSE)), elapsed)

execute_old_Adjust(w, ctx, elapsed, pitch_delta) ==
    IF pitch_delta >= PITCH_DELTA_MIN
    THEN Reenter(EnterPhase(w, "Wait", ctx), elapsed)
    ELSE IF elapsed > PITCH_ADJUSTMENT_TIME * 2
    THEN Out(w, Abort, elapsed)
    ELSE Out(w, Yield(PlayerInput(FALSE, 1, FALSE, w.throttle, FALSE)), elapsed)

execute_old_Wait_MutAbortFirst(w, ctx, elapsed) ==
    IF elapsed * 4 > DODGE_WAIT_TIME * 5
    THEN Out(w, Abort, elapsed)
    ELSE IF ctx.DoubleJumped
    THEN Out(w, Abort, elapsed)
    ELSE IF ctx.loc_z <= WAIT_LOC_Z /\ ctx.vel_z < 0
    THEN Reenter(EnterPhase(w, "Dodge", ctx), elapsed)
    ELSE Out(w, Yield(PlayerInput(FALSE, 0, FALSE, w.throttle, FALSE)), elapsed)

execute_old_Wait_MutNoTimeout(w, ctx, elapsed) ==
    IF ctx.loc_z <= WAIT_LOC_Z /\ ctx.vel_z < 0
    THEN Reenter(EnterPhase(w, "Dodge", ctx), elapsed)
    ELSE IF ctx.DoubleJumped
    THEN Out(w, Abort, elapsed)
    ELSE Out(w, Yield(PlayerInput(FALSE, 0, FALSE, w.throttle, FALSE)), elapsed)

\* "elapsed > DODGE_WAIT_TIME * 1.25" is written without fractions.
execute_old_Wait(w, ctx, elapsed) ==
    IF ctx.loc_z <= WAIT_LOC_Z /\ ctx.vel_z < 0
    THEN Reenter(EnterPhase(w, "Dodge", ctx), elapsed)
    ELSE IF elapsed * 4 > DODGE_WAIT_TIME * 5
    THEN Out(w, Abort, elapsed)
    ELSE IF ctx.DoubleJumped
    THEN Out(w, Abort, elapsed)
    ELSE Out(w, Yield(PlayerInput(FALSE, 0, FALSE, w.throttle, FALSE)), elapsed)

execute_old_Dodge(w, ctx, elapsed) ==
    IF elapsed >= JUMP_INPUT_TIME
    THEN Reenter(EnterPhase(w, "FollowThrough", ctx), elapsed)
    ELSE IF ctx.OnGround
    THEN Out(w, Abort, elapsed)
    ELSE Out(w, Yield(PlayerInput(TRUE, -1, TRUE, w.throttle, FALSE)), elapsed)

execute_old_FollowThrough(w, ctx, elapsed) ==
    IF elapsed >= FOLLOW_THROUGH_TIME
    THEN Reenter([w EXCEPT !.phase = "Finished"], elapsed)
    ELSE Out(w, Yield(PlayerInput(FALSE, 0, TRUE, 0, FALSE)), elapsed)

\* One evaluation of the body of Wavedash::execute_old.
execute_old_body(w, ctx) ==
    LET phase_start_time == get_or_insert(w.phase_start_time, ctx.time)
        starting_pitch == get_or_insert(w.starting_pitch, ctx.pitch)
        pitch_delta == ctx.pitch - starting_pitch
        elapsed == ctx.time - phase_start_time
        w1 == [w EXCEPT !.phase_start_time = Some(phase_start_time),
                        !.starting_pitch = Some(starting_pitch)]
    IN CASE w.phase = "Jump" -> execute_old_Jump(w1, ctx, elapsed)
         [] w.phase = "Adjust" -> execute_old_Adjust(w1, ctx, elapsed, pitch_delta)
         [] w.phase = "Wait" -> execute_old_Wait(w1, ctx, elapsed)
         [] w.phase = "Dodge" -> execute_old_Dodge(w1, ctx, elapsed)
         [] w.phase = "FollowThrough" -> execute_old_FollowThrough(w1, ctx, elapsed)
         [] w.phase = "Finished" -> Out(w1, Return, elapsed)

\* Wavedash::execute_old as its caller sees it: the body, re-entered after
\* every phase change, until it returns an Action.
RECURSIVE Wavedash_execute_old(_, _)
Wavedash_execute_old(w, ctx) ==
    LET r == execute_old_body(w, ctx)
    IN IF r.reenter THEN Wavedash_execute_old(r.w, ctx) ELSE r

\* Between ticks no snapshot is borrowed: only the game clock is kept.
Settled(time) ==
    [time |-> time, OnGround |-> TRUE, DoubleJumped |-> FALSE,
     pitch |-> 0, loc_z |-> WAIT_LOC_Z, vel_z |-> 0]

WdInit ==
    /\ wd = Wavedash_new
    /\ \E t \in InitTimes : wdCtx = Settled(t)
    /\ wdPc = "idle"
    /\ wdAction = NoAction
    /\ wdEntered = NoneOpt
    /\ wdDepth = 0

\* No Wavedash is under test.
WdParked ==
    /\ wd = Wavedash_new
    /\ wdCtx = Settled(0)
    /\ wdPc = "parked"
    /\ wdAction = NoAction
    /\ wdEntered = NoneOpt
    /\ wdDepth = 0

\* The next tick: the task that yielded is executed again with a new
\* snapshot.
WdTick ==
    /\ wdPc = "idle"
    /\ \E dt \in DTs :
         /\ wdCtx.time + dt <= MaxTime
         /\ \E c \in Contexts(wdCtx.time + dt) : wdCtx' = c
    /\ wdPc' = "exec"
    /\ wdDepth' = 0
    /\ wdAction' = NoAction
    /\ UNCHANGED <<wd, wdEntered>>
    /\ UNCHANGED notWd

\* The game clock of the runs in which every tick comes strictly later than
\* the one before: it stops at MaxLiveTime, and a tick is LiveDTs late.
MaxLiveTime == 900

LiveDTs == {30, 120}

\* The next tick, with a game clock that has advanced.
WdTickAdvancing ==
    /\ wdPc = "idle"
    /\ \E dt \in LiveDTs :
         /\ wdCtx.time + dt <= MaxLiveTime
         /\ \E c \in Contexts(wdCtx.time + dt) : wdCtx' = c
    /\ wdPc' = "exec"
    /\ wdDepth' = 0
    /\ wdAction' = NoAction
    /\ UNCHANGED <<wd, wdEntered>>
    /\ UNCHANGED notWd

\* One evaluation of the body of execute_old.
BodyStep ==
    /\ wdPc = "exec"
    /\ LET r == execute_old_body(wd, wdCtx)
           entered == get_or_insert(wdEntered, wdCtx.time)
       IN /\ wd' = r.w
          /\ wdEntered' = IF r.w.phase # wd.phase THEN Some(wdCtx.time) ELSE Some(entered)
          /\ wdAction' = r.action
          /\ wdDepth' = IF r.reenter THEN wdDepth + 1 ELSE wdDepth
          /\ wdPc' = IF r.reenter THEN "exec"
                     ELSE IF r.action.type = "Yield" THEN "idle" ELSE "done"
          /\ wdCtx' = IF r.reenter THEN wdCtx ELSE Settled(wdCtx.time)
    /\ UNCHANGED notWd

JumpPhase ==
    /\ wd.phase = "Jump"
    /\ BodyStep

AdjustPhase ==
    /\ wd.phase = "Adjust"
    /\ BodyStep

WaitPhase ==
    /\ wd.phase = "Wait"
    /\ BodyStep

DodgePhase ==
    /\ wd.phase = "Dodge"
    /\ BodyStep

FollowThroughPhase ==
    /\ wd.phase = "FollowThrough"
    /\ BodyStep

FinishedPhase ==
    /\ wd.phase = "Finished"
    /\ BodyStep

(***************************************************************************)
(* The behaviors the task engine runs                                      *)
(***************************************************************************)
\* Bound of the engine part: the game clock stops at MaxRunTime.
MaxRunTime == 18

\* How far the game clock moves from one tick to the next, in physics ticks.
RunDTs == {2, 12}

\* "intercept.ball_loc.z >= 500.0" (shoot.rs)
SHOOT_AERIAL_Z == 500

\* "pitch().to_degrees() < 1.0" (blitz_to_location.rs), in units of PI / 360.
BLITZ_MAX_PITCH == 2

\* "pitch().abs() < 15.0_f32.to_radians()" (get_to_flat_ground.rs), in units
\* of PI / 360.
FLAT_MAX_PITCH == 30

Call(child) == [type |-> "Call", child |-> child]

TailCall(child) == [type |-> "TailCall", child |-> child]

\* PlayerInput::default()
DefaultInput == PlayerInput(FALSE, 0, FALSE, 0, FALSE)

HitTypes == {"Ground", "Wall"}

\* The snapshots of one tick.  A car on the ground has its double jump and
\* rests low; an airborne car is high, or low and falling.  The ball is
\* out of angle, low or high; the behaviors that are not part of the
\* sources under test ("Leaf") yield, return or abort as leaf says.
Snapshots(time) ==
    { c \in [time : {time}, OnGround : BOOLEAN, DoubleJumped : BOOLEAN,
             pitch : 0 .. MaxPitch, loc_z : LocZs, vel_z : VelZs,
             Boost : {0, 33}, good_angle : BOOLEAN,
             ball_z : {SHOOT_AERIAL_Z - 1, SHOOT_AERIAL_Z},
             hit : HitTypes, leaf : {"Yield", "Return", "Abort"}] :
        /\ c.OnGround => ~c.DoubleJumped /\ c.loc_z = WAIT_LOC_Z /\ c.vel_z = 0
        /\ ~c.OnGround => (c.loc_z = WAIT_LOC_Z <=> c.vel_z < 0)
        /\ ~c.good_angle => c.ball_z < SHOOT_AERIAL_Z }

\* Between ticks no snapshot is borrowed: only the game clock is kept.
SettledSnap(time) ==
    [time |-> time, OnGround |-> TRUE, DoubleJumped |-> FALSE,
     pitch |-> 0, loc_z |-> WAIT_LOC_Z, vel_z |-> 0,
     Boost |-> 0, good_angle |-> FALSE, ball_z |-> SHOOT_AERIAL_Z - 1,
     hit |-> "Ground", leaf |-> "Yield"]

\* A behavior whose code is not among the sources (GroundShot, AerialShot,
\* FollowRoute, GroundedHit, WallHit, Yielder).
Leaf(name) == [kind |-> "Leaf", name |-> name]

\* Chain::new(priority, vec_box![..])
Chain_new(priority, children) ==
    [kind |-> "Chain", priority |-> priority, children |-> children]

NullBehavior_new == [kind |-> "NullBehavior"]

Shoot_new == [kind |-> "Shoot", finished |-> FALSE]

TepidHit_new == [kind |-> "TepidHit"]

GroundAccelToLoc_new == [kind |-> "GroundAccelToLoc"]

GetToFlatGround_new == [kind |-> "GetToFlatGround"]

BlitzToLocation_new == [kind |-> "BlitzToLocation"]

\* What one execute gives back: the task as it left it, and its Action.
Did(task, action) == [task |-> task, action |-> action]

\* NullBehavior::execute
NullBehavior_execute(t) == Did(t, Yield(DefaultInput))

\* Shoot::execute.  good_angle(intercept.ball_loc) and intercept.ball_loc.z
\* are read from the snapshot.
Shoot_execute(t, ctx) ==
    IF t.finished
    THEN Did(t, Return)
    ELSE IF ~ctx.good_angle
    THEN Did(t, Return)
    ELSE IF ctx.ball_z >= SHOOT_AERIAL_Z
    THEN Did([t EXCEPT !.finished = TRUE], Call(Leaf("AerialShot")))
    ELSE Did(t, Call(Leaf("GroundShot")))

\* TepidHit::execute: a wall hit or a ground hit (ctx.hit is the HitType of
\* the fastest feasible intercept); both are a Call of a chain.
TepidHit_execute(t, ctx) ==
    IF ctx.hit = "Wall"
    THEN Did(t, Call(Chain_new("Striking",
                 <<Leaf("FollowRoute(WallIntercept)"), Leaf("WallHit")>>)))
    ELSE Did(t, Call(Chain_new("Striking",
                 <<Leaf("FollowRoute(GroundIntercept)"), Leaf("GroundedHit")>>)))

\* GetToFlatGround::on_flat_ground; the car has no roll.
on_flat_ground(ctx) == ctx.OnGround /\ ctx.pitch < FLAT_MAX_PITCH

\* GetToFlatGround::execute2 for a car that is not upside down and does not
\* spin: every branch but the first yields.
GetToFlatGround_execute2(t, ctx) ==
    IF on_flat_ground(ctx)
    THEN Did(t, Return)
    ELSE IF ctx.OnGround
    THEN Did(t, Yield(PlayerInput(FALSE, 0, FALSE, 1, FALSE)))
    ELSE Did(t, Yield(PlayerInput(FALSE, 0 - ctx.pitch, FALSE, 1, FALSE)))

\* GroundAccelToLoc::execute
GroundAccelToLoc_execute(t, ctx) ==
    IF ~on_flat_ground(ctx)
    THEN Did(t, Call(GetToFlatGround_new))
    ELSE Did(t, Yield(PlayerInput(FALSE, 0, FALSE, 1, ctx.OnGround /\ ctx.Boost > 0)))

BlitzToLocation_execute_old_MutCall(t, ctx) ==
    IF ctx.OnGround /\ ctx.Boost > 0
    THEN Did(t, Yield(PlayerInput(FALSE, 0, FALSE, 1, TRUE)))
    ELSE IF ctx.OnGround /\ ctx.pitch < BLITZ_MAX_PITCH
    THEN Did(t, Call(Chain_new("Idle", <<Leaf("Yielder"), Wavedash_new>>)))
    ELSE Did(t, Yield(PlayerInput(FALSE, 0, FALSE, 1, FALSE)))

\* BlitzToLocation::execute_old for a target far ahead of a car that drives
\* straight at it at 1000 uu/s (distance > wavedash_dist, steer = 0).
BlitzToLocation_execute_old(t, ctx) ==
    IF ctx.OnGround /\ ctx.Boost > 0
    THEN Did(t, Yield(PlayerInput(FALSE, 0, FALSE, 1, TRUE)))
    ELSE IF ctx.OnGround /\ ctx.pitch < BLITZ_MAX_PITCH
    THEN Did(t, TailCall(Chain_new("Idle", <<Leaf("Yielder"), Wavedash_new>>)))
    ELSE Did(t, Yield(PlayerInput(FALSE, 0, FALSE, 1, FALSE)))

\* Wavedash::execute_old as the engine calls it.
Wavedash_execute(t, ctx) ==
    LET r == Wavedash_execute_old(t, ctx) IN Did(r.w, r.action)

\* A behavior outside the sources: what it does is an input of the tick.
Leaf_execute(t, ctx) ==
    CASE ctx.leaf = "Yield" -> Did(t, Yield(DefaultInput))
      [] ctx.leaf = "Return" -> Did(t, Return)
      [] ctx.leaf = "Abort" -> Did(t, Abort)

\* Chain: runs its children one after the other, gives up when one of them
\* gave up, and returns after the last.
Chain_execute(t, sig) ==
    IF sig = "aborted"
    THEN Did(t, Abort)
    ELSE IF t.children = <<>>
    THEN Did(t, Return)
    ELSE Did([t EXCEPT !.children = Tail(t.children)], Call(Head(t.children)))

\* Behavior::execute, dispatched on the task's type.
Behavior_execute(t, ctx, sig) ==
    CASE t.kind = "NullBehavior" -> NullBehavior_execute(t)
      [] t.kind = "Shoot" -> Shoot_execute(t, ctx)
      [] t.kind = "TepidHit" -> TepidHit_execute(t, ctx)
      [] t.kind = "GetToFlatGround" -> GetToFlatGround_execute2(t, ctx)
      [] t.kind = "GroundAccelToLoc" -> GroundAccelToLoc_execute(t, ctx)
      [] t.kind = "BlitzToLocation" -> BlitzToLocation_execute_old(t, ctx)
      [] t.kind = "Wavedash" -> Wavedash_execute(t, ctx)
      [] t.kind = "Leaf" -> Leaf_execute(t, ctx)
      [] t.kind = "Chain" -> Chain_execute(t, sig)

\* Behavior::priority
Behavior_priority(t) ==
    CASE t.kind = "Wavedash" -> Wavedash_priority
      [] t.kind = "Chain" -> t.priority
      [] OTHER -> "Idle"

(***************************************************************************)
(* The Runner                                                              *)
(***************************************************************************)
\* What Strategy::baseline and Strategy::interrupt may hand to the Runner.
Roots ==
    {NullBehavior_new, Shoot_new, TepidHit_new, GroundAccelToLoc_new,
     BlitzToLocation_new}

Interrupters == {NullBehavior_new, BlitzToLocation_new}

NoCommand == [type |-> "None"]

Top == stack[Len(stack)]

Pop(st) == SubSeq(st, 1, Len(st) - 1)

ReplaceTop(st, t) == [st EXCEPT ![Len(st)] = t]

\* The Strategy may replace the running task unless its priority is Force.
CanInterrupt(t) == Behavior_priority(t) # "Force"

RunInit ==
    /\ stack = <<>>
    /\ snap = SettledSnap(0)
    /\ rpc = "idle"
    /\ command = NoCommand
    /\ lastAction = NoAction
    /\ signal = "none"
    /\ open = 0
    /\ visited = {}
    /\ stuck = FALSE

\* No Runner is under test.
RunParked ==
    /\ stack = <<>>
    /\ snap = SettledSnap(0)
    /\ rpc = "parked"
    /\ command = NoCommand
    /\ lastAction = NoAction
    /\ signal = "none"
    /\ open = 0
    /\ visited = {}
    /\ stuck = FALSE

\* Brain::determine_controls: a new tick with a new snapshot.
RunnerTick ==
    /\ rpc = "idle"
    /\ \E dt \in RunDTs :
         /\ snap.time + dt <= MaxRunTime
         /\ \E c \in Snapshots(snap.time + dt) : snap' = c
    /\ rpc' = "interrupt"
    /\ command' = NoCommand
    /\ lastAction' = NoAction
    /\ visited' = {}
    /\ stuck' = FALSE
    /\ UNCHANGED <<stack, signal, open>>
    /\ UNCHANGED notRun

\* The running task is Force: Strategy::interrupt cannot replace it.
InterruptRefused ==
    /\ rpc = "interrupt"
    /\ stack # <<>>
    /\ ~CanInterrupt(Top)
    /\ rpc' = "resolve"
    /\ UNCHANGED <<stack, snap, command, lastAction, signal, open, visited, stuck>>
    /\ UNCHANGED notRun

\* Strategy::interrupt returned None, or there is no task yet.
InterruptNone ==
    /\ rpc = "interrupt"
    /\ IF stack = <<>> THEN TRUE ELSE CanInterrupt(Top)
    /\ rpc' = "resolve"
    /\ UNCHANGED <<stack, snap, command, lastAction, signal, open, visited, stuck>>
    /\ UNCHANGED notRun

\* Strategy::interrupt returned Some(b): the stack is discarded for b.
InterruptSubstitute ==
    /\ rpc = "interrupt"
    /\ stack # <<>>
    /\ CanInterrupt(Top)
    /\ \E b \in Interrupters : stack' = <<b>>
    /\ open' = 0
    /\ signal' = "none"
    /\ rpc' = "resolve"
    /\ UNCHANGED <<snap, command, lastAction, visited, stuck>>
    /\ UNCHANGED notRun

\* The stack is empty: Strategy::baseline supplies a fresh task.
Baseline ==
    /\ rpc = "resolve"
    /\ stack = <<>>
    /\ \E b \in Roots : stack' = <<b>>
    /\ signal' = "none"
    /\ visited' = {}
    /\ UNCHANGED <<snap, rpc, command, lastAction, open, stuck>>
    /\ UNCHANGED notRun

\* The running task is executed and returns an Action of the given type.
Executes(type, r) ==
    /\ rpc = "resolve"
    /\ stack # <<>>
    /\ r.action.type = type
    /\ lastAction' = [type |-> type, kind |-> Top.kind]
    /\ visited' = visited \cup {<<stack, signal>>}
    /\ stuck' = (stuck \/ <<stack, signal>> \in visited)
    /\ UNCHANGED notRun

\* Yield(command): the tick's command; the task stays on top.
TaskYields ==
    LET r == Behavior_execute(Top, snap, signal)
    IN /\ Executes("Yield", r)
       /\ stack' = ReplaceTop(stack, r.task)
       /\ command' = r.action.input
       /\ rpc' = "idle"
       /\ snap' = SettledSnap(snap.time)
       /\ signal' = "none"
       /\ UNCHANGED open

\* Call(child): the child is pushed and runs next, in this tick.
TaskCalls ==
    LET r == Behavior_execute(Top, snap, signal)
    IN /\ Executes("Call", r)
       /\ stack' = Append(ReplaceTop(stack, r.task), r.action.child)
       /\ open' = open + 1
       /\ signal' = "none"
       /\ UNCHANGED <<snap, rpc, command>>

\* A tail call: the task is replaced by another at the same depth.
TaskTailCalls ==
    LET r == Behavior_execute(Top, snap, signal)
    IN /\ Executes("TailCall", r)
       /\ stack' = ReplaceTop(stack, r.action.child)
       /\ signal' = "none"
       /\ UNCHANGED <<snap, rpc, command, open>>

\* Return: the task is popped and its parent resumes, in this tick.
TaskReturns ==
    LET r == Behavior_execute(Top, snap, signal)
    IN /\ Executes("Return", r)
       /\ stack' = Pop(stack)
       /\ signal' = IF Len(stack) > 1 THEN "returned" ELSE "none"
       /\ open' = IF Len(stack) > 1 THEN open - 1 ELSE open
       /\ UNCHANGED <<snap, rpc, command>>

\* Abort: the task is popped and its parent is told that it gave up.
TaskAborts ==
    LET r == Behavior_execute(Top, snap, signal)
    IN /\ Executes("Abort", r)
       /\ stack' = Pop(stack)
       /\ signal' = IF Len(stack) > 1 THEN "aborted" ELSE "none"
       /\ open' = IF Len(stack) > 1 THEN open - 1 ELSE open
       /\ UNCHANGED <<snap, rpc, command>>

(***************************************************************************)
(* Scenario (strategy/scenario.rs)                                         *)
(***************************************************************************)
\* Bound of the scenario part: the latest intercept time a blitz finds (in
\* seconds).
MaxIntercept == 1

\* The numbers of cars of the enemy team.
EnemyTeams == {0, 1, 2}

\* Scenario::POSSESSION_SATURATED
POSSESSION_SATURATED == 5

\* The forecasts the ball predictor may answer a call with.
Predictions == {1, 2}

\* Option<NaiveIntercept>, with the car it belongs to.
NoIntercept == [some |-> FALSE, car |-> 0, time |-> 0]

SomeIntercept(car, time) == [some |-> TRUE, car |-> car, time |-> time]

\* What simulate_ball_blitz finds for one car: no intercept, or its time.
Blitzes == {NoneOpt} \cup { Some(t) : t \in 0 .. MaxIntercept }

\* The packets of a tick: my car, and the cars of the enemy team in the
\* order of the packet.
Worlds ==
    [me : Blitzes,
     enemies : UNION { [1 .. n -> Blitzes] : n \in EnemyTeams }]

Cells ==
    {"ball_prediction", "me_intercept", "enemy_intercept", "possession",
     "push_wall", "impending_score_conservative", "impending_concede",
     "enemy_shoot_score_seconds", "slightly_panicky_retreat",
     "very_panicky_retreat"}

\* The computations of a Scenario: the predictor, the race, and the closure
\* of every other cell.
Computations == (Cells \ {"me_intercept", "enemy_intercept", "possession"})
                    \cup {"race"}

\* Scenario::new: every LazyCell empty.
Scenario_new ==
    [cells |-> [c \in Cells |-> NoneOpt], runs |-> [r \in Computations |-> 0]]

\* LazyCell::filled
filled(s, c) == s.cells[c] # NoneOpt

\* LazyCell::fill
fill(s, c, v) == [s EXCEPT !.cells[c] = Some(v)]

\* LazyCell::borrow of a filled cell
borrow(s, c) == s.cells[c][1]

\* The computation r runs once more.
ran(s, r) == [s EXCEPT !.runs[r] = @ + 1]

\* What a call on the Scenario leaves: the Scenario, and the value returned.
Got(s, v) == [s |-> s, v |-> v]

Scenario_ball_prediction_MutNoCache(s, w, p) ==
    Got(fill(ran(s, "ball_prediction"), "ball_prediction", p), p)

\* Scenario::ball_prediction; p is what the predictor answers if it is
\* invoked.
Scenario_ball_prediction(s, w, p) ==
    IF filled(s, "ball_prediction")
    THEN Got(s, borrow(s, "ball_prediction"))
    ELSE Got(fill(ran(s, "ball_prediction"), "ball_prediction", p), p)

\* simulate_ball_blitz
simulate_ball_blitz(ball_prediction, car, blitz) ==
    IF blitz = NoneOpt THEN NoIntercept ELSE SomeIntercept(car, blitz[1])

\* Iterator::min_by_key over the feasible intercepts, in the order of the
\* cars: of several equally small ones the first.
RECURSIVE min_by_key(_, _, _)
min_by_key(intercepts, i, best) ==
    IF i > Len(intercepts)
    THEN best
    ELSE min_by_key(intercepts, i + 1,
                    IF ~intercepts[i].some THEN best
                    ELSE IF ~best.some THEN intercepts[i]
                    ELSE IF intercepts[i].time < best.time THEN intercepts[i]
                    ELSE best)

race_possession_MutSwapped(blitz_me, blitz_enemy) ==
    IF blitz_me.some /\ blitz_enemy.some
    THEN blitz_me.time - blitz_enemy.time
    ELSE POSSESSION_SATURATED

race_possession_MutOnlyMe(blitz_me, blitz_enemy) ==
    IF blitz_me.some /\ blitz_enemy.some
    THEN blitz_enemy.time - blitz_me.time
    ELSE IF blitz_me.some
    THEN POSSESSION_SATURATED
    ELSE 0 - POSSESSION_SATURATED

\* "let possession = match (&blitz_me, &blitz_enemy)" of Scenario::race
race_possession(blitz_me, blitz_enemy) ==
    IF blitz_me.some /\ blitz_enemy.some
    THEN blitz_enemy.time - blitz_me.time
    ELSE POSSESSION_SATURATED

race_blitz_enemy_MutFirst(ball_prediction, w) ==
    LET F == { i \in 1 .. Len(w.enemies) : w.enemies[i] # NoneOpt }
    IN IF F = {}
       THEN NoIntercept
       ELSE LET i == CHOOSE i \in F : \A j \in F : i <= j
            IN simulate_ball_blitz(ball_prediction, i, w.enemies[i])

\* "let blitz_enemy = ..." of Scenario::race
race_blitz_enemy(ball_prediction, w) ==
    min_by_key([i \in 1 .. Len(w.enemies) |->
                   simulate_ball_blitz(ball_prediction, i, w.enemies[i])],
               1, NoIntercept)

\* Scenario::race
Scenario_race(s, w, p) ==
    LET g == Scenario_ball_prediction(s, w, p)
        blitz_me == simulate_ball_blitz(g.v, 0, w.me)
        blitz_enemy == race_blitz_enemy(g.v, w)
        possession == race_possession(blitz_me, blitz_enemy)
    IN fill(fill(fill(ran(g.s, "race"), "me_intercept", blitz_me),
                 "enemy_intercept", blitz_enemy),
            "possession", possession)

raced_MutAlways(s, w, p) == Scenario_race(s, w, p)

\* "if !self.me_intercept.filled() { self.race(); }"
raced(s, w, p) == IF ~filled(s, "me_intercept") THEN Scenario_race(s, w, p) ELSE s

Scenario_me_intercept(s, w, p) ==
    LET s1 == raced(s, w, p) IN Got(s1, borrow(s1, "me_intercept"))

Scenario_enemy_intercept(s, w, p) ==
    LET s1 == raced(s, w, p) IN Got(s1, borrow(s1, "enemy_intercept"))

\* Scenario::primary_enemy: the car of enemy_intercept, 0 for none.
Scenario_primary_enemy(s, w, p) ==
    LET g == Scenario_enemy_intercept(s, w, p) IN Got(g.s, g.v.car)

Scenario_possession(s, w, p) ==
    LET s1 == raced(s, w, p) IN Got(s1, borrow(s1, "possession"))

\* Scenario::push_wall: the wall behind my intercept, or behind the end of
\* the prediction.
Scenario_push_wall(s, w, p) ==
    IF filled(s, "push_wall")
    THEN Got(s, borrow(s, "push_wall"))
    ELSE LET g == Scenario_me_intercept(s, w, p)
             h == IF g.v.some
                  THEN Got(g.s, [wall |-> "intercept", of |-> g.v.time])
                  ELSE LET b == Scenario_ball_prediction(g.s, w, p)
                       IN Got(b.s, [wall |-> "last", of |-> b.v])
         IN Got(fill(ran(h.s, "push_wall"), "push_wall", h.v), h.v)

\* Scenario::impending_score_conservative and Scenario::impending_concede:
\* the first frame of the prediction the goal counts as scored.
Scenario_impending(s, w, p, cell, goal) ==
    IF filled(s, cell)
    THEN Got(s, borrow(s, cell))
    ELSE LET b == Scenario_ball_prediction(s, w, p)
             v == [goal |-> goal, prediction |-> b.v]
         IN Got(fill(ran(b.s, cell), cell, v), v)

\* Scenario::enemy_shoot_score_seconds: infinite without an enemy
\* intercept, else a guess from that intercept.
Scenario_enemy_shoot_score_seconds(s, w, p) ==
    IF filled(s, "enemy_shoot_score_seconds")
    THEN Got(s, borrow(s, "enemy_shoot_score_seconds"))
    ELSE LET g == Scenario_enemy_intercept(s, w, p)
             v == IF g.v.some
                  THEN [infinite |-> FALSE, car |-> g.v.car, time |-> g.v.time]
                  ELSE [infinite |-> TRUE, car |-> 0, time |-> 0]
         IN Got(fill(ran(g.s, "enemy_shoot_score_seconds"),
                     "enemy_shoot_score_seconds", v), v)

\* Scenario::slightly_panicky_retreat and Scenario::very_panicky_retreat: a
\* predicate of the packet and of the primary enemy.
Scenario_panicky_retreat(s, w, p, cell) ==
    IF filled(s, cell)
    THEN Got(s, borrow(s, cell))
    ELSE LET g == Scenario_primary_enemy(s, w, p)
             v == [retreat |-> cell, enemy |-> g.v]
         IN Got(fill(ran(g.s, cell), cell, v), v)

NoCall == [acc |-> "none", again |-> FALSE, same |-> TRUE]

ScnInit ==
    /\ world \in Worlds
    /\ scn = Scenario_new
    /\ lastRet = NoCall

\* No Scenario is under test.
ScnParked ==
    /\ world = [me |-> NoneOpt, enemies |-> <<>>]
    /\ scn = Scenario_new
    /\ lastRet = NoCall

\* A behavior called the accessor acc, which left g: whether it is the
\* call before once more, and whether it then returned the same.
Returned(acc, g) ==
    /\ lastRet' = [acc |-> acc, v |-> g.v,
                   again |-> lastRet.acc = acc,
                   same |-> IF lastRet.acc = acc THEN g.v = lastRet.v ELSE TRUE]
    /\ UNCHANGED world
    /\ UNCHANGED notScn

BallPrediction ==
    \E p \in Predictions :
        LET g == Scenario_ball_prediction(scn, world, p)
        IN /\ scn' = g.s
           /\ Returned("ball_prediction", g)

MeIntercept ==
    \E p \in Predictions :
        LET g == Scenario_me_intercept(scn, world, p)
        IN /\ scn' = g.s
           /\ Returned("me_intercept", g)

EnemyIntercept ==
    \E p \in Predictions :
        LET g == Scenario_enemy_intercept(scn, world, p)
        IN /\ scn' = g.s
           /\ Returned("enemy_intercept", g)

Possession ==
    \E p \in Predictions :
        LET g == Scenario_possession(scn, world, p)
        IN /\ scn' = g.s
           /\ Returned("possession", g)

PushWall ==
    \E p \in Predictions :
        LET g == Scenario_push_wall(scn, world, p)
        IN /\ scn' = g.s
           /\ Returned("push_wall", g)

ImpendingScoreConservative ==
    \E p \in Predictions :
        LET g == Scenario_impending(scn, world, p,
                                    "impending_score_conservative", "enemy_goal")
        IN /\ scn' = g.s
           /\ Returned("impending_score_conservative", g)

ImpendingConcede ==
    \E p \in Predictions :
        LET g == Scenario_impending(scn, world, p, "impending_concede", "own_goal")
        IN /\ scn' = g.s
           /\ Returned("impending_concede", g)

EnemyShootScoreSeconds ==
    \E p \in Predictions :
        LET g == Scenario_enemy_shoot_score_seconds(scn, world, p)
        IN /\ scn' = g.s
           /\ Returned("enemy_shoot_score_seconds", g)

SlightlyPanickyRetreat ==
    \E p \in Predictions :
        LET g == Scenario_panicky_retreat(scn, world, p, "slightly_panicky_retreat")
        IN /\ scn' = g.s
           /\ Returned("slightly_panicky_retreat", g)

VeryPanickyRetreat ==
    \E p \in Predictions :
        LET g == Scenario_panicky_retreat(scn, world, p, "very_panicky_retreat")
        IN /\ scn' = g.s
           /\ Returned("very_panicky_retreat", g)

(***************************************************************************)
(* Routing: GroundStraightPlanner (routing/plan/ground_straight.rs)        *)
(*                                                                         *)
(* A CarState has a 3-D location <<x, y, z>>, a rotation <<yaw, pitch,     *)
(* roll>>, a 3-D velocity and a boost amount; heights are counted from the *)
(* height of a car resting on its wheels.  The recover predicates and the  *)
(* drive simulations of the segments are evaluated outside of the planner: *)
(* the context under test carries their verdicts and durations.            *)
(***************************************************************************)
MaxDuration == 2
MaxDodges == 2

Locs == {<<1, 0, 0>>, <<1, 0, 1>>}
Rots == {<<0, 0, 0>>, <<0, 1, 0>>}
Vels == {<<2, 0, 0>>, <<2, 0, -1>>}
Boosts == {0, 33}
TargetLocs == {<<3, 0>>, <<5, 0>>}
Scores == {1, 2}

\* The planner under test reserves no time at the end of its segment.
NoEndChop == 0

CarStates ==
    [loc : Locs, rot : Rots, vel : Vels, boost : Boosts,
     not_on_flat_ground : BOOLEAN, skidding : BOOLEAN, not_facing : BOOLEAN]

\* What StraightDodgeCalculator::collect can come back with: one StraightDodge
\* per step of the approach, in the order of the steps.
RECURSIVE DodgeScores(_)
DodgeScores(n) ==
    IF n = 0
    THEN {<<>>}
    ELSE DodgeScores(n - 1)
         \cup {Append(ss, sc) : ss \in {x \in DodgeScores(n - 1) : Len(x) = n - 1},
                                sc \in Scores}

StraightDodge(i, score) == [approach_distance |-> i, dodge |-> i, score |-> score]

StraightDodgeCalculator_collect(ctx) ==
    [i \in 1..Len(ctx.dodge_scores) |-> StraightDodge(i, ctx.dodge_scores[i])]

PlanningContexts ==
    [start : CarStates,
     target_loc : TargetLocs,
     simple_duration : 1..MaxDuration,
     with_dodge_duration : 1..MaxDuration,
     dodge_scores : DodgeScores(MaxDodges)]

\* The recover predicates.
NotOnFlatGround(state) == state.not_on_flat_ground

IsSkidding(state) == state.skidding

NotFacingTarget2D(target_loc, state) == state.not_facing

\* Vector3::to_2d, Point3::to_2d: the vertical component is left out.
to_2d(v) == <<v[1], v[2]>>

\* UnitQuaternion::to_2d: the rotation around the vertical axis is kept.
rot_to_2d(r) == <<r[1]>>

NoLoc == <<>>
NoError == [kind |-> "none", recover_target_loc |-> NoLoc]
MustBeOnFlatGround == [kind |-> "MustBeOnFlatGround", recover_target_loc |-> NoLoc]
MustNotBeSkidding(recover_target_loc) ==
    [kind |-> "MustNotBeSkidding", recover_target_loc |-> recover_target_loc]
MustBeFacingTarget == [kind |-> "MustBeFacingTarget", recover_target_loc |-> NoLoc]
MovingTooFast == [kind |-> "MovingTooFast", recover_target_loc |-> NoLoc]

NoSegment == [kind |-> "none"]
NoRoutePlan == [segment |-> NoSegment, next |-> None]
Ok(plan) == [ok |-> TRUE, plan |-> plan, err |-> NoError]
Err(error) == [ok |-> FALSE, plan |-> NoRoutePlan, err |-> error]

\* The guards every planner starts with, in their order: the first
\* predicate that holds of the start state decides the error.
guard_flat_skidding(state, target_loc) ==
    IF NotOnFlatGround(state) THEN Err(MustBeOnFlatGround)
    ELSE IF IsSkidding(state) THEN Err(MustNotBeSkidding(target_loc))
    ELSE Ok(NoRoutePlan)

guard_facing(state, target_loc) ==
    IF NotFacingTarget2D(target_loc, state) THEN Err(MustBeFacingTarget)
    ELSE Ok(NoRoutePlan)

CarState2D(loc, rot, vel, boost) ==
    [loc |-> loc, rot |-> rot, vel |-> vel, boost |-> boost]

Straight_new(from, target_loc, end_chop, mode, duration) ==
    [kind |-> "Straight", start |-> from, target_loc |-> target_loc,
     end_chop |-> end_chop, mode |-> mode, duration |-> duration]

\* The state a segment ends in, known once the segment is.
Segment_end(segment) == [end_of |-> segment]

ForwardDodge_new(from, dodge) ==
    [kind |-> "ForwardDodge", start |-> from, dodge |-> dodge]

SegmentChain_new(segments, duration) ==
    [kind |-> "Chain", segments |-> segments, duration |-> duration]

SegmentPlan_duration(segment) == segment.duration

StraightSimple_plan_MutNoBoost(ctx) ==
    LET g1 == guard_flat_skidding(ctx.start, ctx.target_loc)
        g2 == guard_facing(ctx.start, ctx.target_loc)
    IN IF ~g1.ok THEN g1
       ELSE IF ~g2.ok THEN g2
       ELSE Ok([segment |-> Straight_new(
                                CarState2D(to_2d(ctx.start.loc), rot_to_2d(ctx.start.rot),
                                           to_2d(ctx.start.vel), 0),
                                ctx.target_loc, NoEndChop, "Asap", ctx.simple_duration),
                next |-> None])

StraightSimple_plan(ctx) ==
    LET g1 == guard_flat_skidding(ctx.start, ctx.target_loc)
        g2 == guard_facing(ctx.start, ctx.target_loc)
    IN IF ~g1.ok THEN g1
       ELSE IF ~g2.ok THEN g2
       ELSE Ok([segment |-> Straight_new(
                                CarState2D(to_2d(ctx.start.loc), rot_to_2d(ctx.start.rot),
                                           to_2d(ctx.start.vel), ctx.start.boost),
                                ctx.target_loc, NoEndChop, "Asap", ctx.simple_duration),
                next |-> None])

\* Iterator::min_by_key over the dodges: the first of the lowest scores.
min_by_score(dodges) ==
    CHOOSE i \in 1..Len(dodges) :
        /\ \A j \in 1..Len(dodges) : dodges[i].score <= dodges[j].score
        /\ \A j \in 1..(i - 1) : dodges[j].score > dodges[i].score

StraightWithDodge_plan(ctx) ==
    LET g1 == guard_flat_skidding(ctx.start, ctx.target_loc)
        g2 == guard_facing(ctx.start, ctx.target_loc)
        dodges == StraightDodgeCalculator_collect(ctx)
    IN IF ~g1.ok THEN g1
       ELSE IF ~g2.ok THEN g2
       ELSE IF dodges = <<>> THEN Err(MovingTooFast)
       ELSE LET dodge == dodges[min_by_score(dodges)]
                before == Straight_new(
                              CarState2D(to_2d(ctx.start.loc), rot_to_2d(ctx.start.rot),
                                         to_2d(ctx.start.vel), ctx.start.boost),
                              [from |-> to_2d(ctx.start.loc), toward |-> ctx.target_loc,
                               distance |-> dodge.approach_distance],
                              0, "Asap", 0)
                fdodge == ForwardDodge_new(Segment_end(before), dodge.dodge)
                after == Straight_new(Segment_end(fdodge), ctx.target_loc,
                                      NoEndChop, "Asap", 0)
            IN Ok([segment |-> SegmentChain_new(<<before, fdodge, after>>,
                                                ctx.with_dodge_duration),
                   next |-> None])

\* at_least_one_ok: the plans that are Ok, or else the error met last.
RECURSIVE at_least_one_ok_loop(_, _, _, _)
at_least_one_ok_loop(results, i, oks, error) ==
    IF i > Len(results)
    THEN IF oks = <<>> THEN Err(error) ELSE [ok |-> TRUE, oks |-> oks]
    ELSE IF results[i].ok
         THEN at_least_one_ok_loop(results, i + 1, Append(oks, results[i].plan), error)
         ELSE at_least_one_ok_loop(results, i + 1, oks, results[i].err)

at_least_one_ok_MutAllOk(results) ==
    LET r == at_least_one_ok_loop(results, 1, <<>>, NoError)
        errs == {i \in 1..Len(results) : ~results[i].ok}
    IN IF errs = {} THEN r ELSE Err(results[CHOOSE i \in errs : TRUE].err)

at_least_one_ok(results) == at_least_one_ok_loop(results, 1, <<>>, NoError)

fastest_MutLast(steps) ==
    steps[CHOOSE i \in 1..Len(steps) :
              /\ \A j \in 1..Len(steps) :
                     SegmentPlan_duration(steps[i].segment)
                         <= SegmentPlan_duration(steps[j].segment)
              /\ \A j \in (i + 1)..Len(steps) :
                     SegmentPlan_duration(steps[j].segment)
                         > SegmentPlan_duration(steps[i].segment)]

\* fastest: Iterator::min_by_key over the durations, the first of the shortest.
fastest(steps) ==
    steps[CHOOSE i \in 1..Len(steps) :
              /\ \A j \in 1..Len(steps) :
                     SegmentPlan_duration(steps[i].segment)
                         <= SegmentPlan_duration(steps[j].segment)
              /\ \A j \in 1..(i - 1) :
                     SegmentPlan_duration(steps[j].segment)
                         > SegmentPlan_duration(steps[i].segment)]

GroundStraightPlanner_plan(ctx) ==
    LET g1 == guard_flat_skidding(ctx.start, ctx.target_loc)
        plans == <<StraightSimple_plan(ctx), StraightWithDodge_plan(ctx)>>
        oks == at_least_one_ok(plans)
    IN IF ~g1.ok THEN g1
       ELSE IF ~oks.ok THEN oks
       ELSE Ok(fastest(oks.oks))

NoPlanCall == [op |-> "none", ret |-> Err(NoError)]

PlanInit ==
    /\ planCtx \in PlanningContexts
    /\ planned = NoPlanCall

PlanParked ==
    /\ planCtx = [start |-> [loc |-> <<0, 0, 0>>, rot |-> <<0, 0, 0>>,
                             vel |-> <<0, 0, 0>>, boost |-> 0,
                             not_on_flat_ground |-> FALSE, skidding |-> FALSE,
                             not_facing |-> FALSE],
                  target_loc |-> <<0, 0>>,
                  simple_duration |-> 1, with_dodge_duration |-> 1,
                  dodge_scores |-> <<>>]
    /\ planned = NoPlanCall

\* A behavior asks the planner for a route from the start state.
Plan ==
    /\ planned' = [op |-> "plan", ret |-> GroundStraightPlanner_plan(planCtx)]
    /\ UNCHANGED planCtx
    /\ UNCHANGED notPlan

(***************************************************************************)
(* Routing: StraightDodgeCalculator (routing/plan/ground_straight.rs)      *)
(*                                                                         *)
(* The search for the moment to dodge on a straight drive.  Car1D and      *)
(* CarForwardDodge are the 1-D car simulation: time in physics ticks,      *)
(* speeds in distance units per tick.  Throttle alone accelerates a car up *)
(* to THROTTLE_TOP, boost up to MAX_SPEED; a coasting car slows down.      *)
(***************************************************************************)
MaxTargetDist == 40
MaxTargetTime == 10
MaxEndChop == 2
MaxOffsets == 8

PHYSICS_DT == 1
GRANULARITY == 2
THROTTLE_TOP == 4
MAX_SPEED == 8
COAST_DECEL == 1
DODGE_IMPULSE == 4
DODGE_DURATION == 2

Min(a, b) == IF a < b THEN a ELSE b

Max(a, b) == IF a > b THEN a ELSE b

Car1D_new(speed, boost) == [time |-> 0, distance |-> 0, speed |-> speed, boost |-> boost]

\* Car1D::step: one tick of throttle (1 or 0), with boost if asked and left.
Car1D_step(car, throttle, boost) ==
    LET boosting == boost /\ car.boost > 0
        speed == IF boosting THEN Min(car.speed + 1, MAX_SPEED)
                 ELSE IF throttle > 0 THEN Max(car.speed, Min(car.speed + 1, THROTTLE_TOP))
                 ELSE Max(car.speed - COAST_DECEL, 0)
    IN [time |-> car.time + PHYSICS_DT,
        distance |-> car.distance + speed,
        speed |-> speed,
        boost |-> IF boosting THEN car.boost - 1 ELSE car.boost]

\* Car1D::multi_step: ticks until the duration has passed.
RECURSIVE Car1D_multi_step(_, _, _, _)
Car1D_multi_step(car, duration, throttle, boost) ==
    IF duration <= 0
    THEN car
    ELSE Car1D_multi_step(Car1D_step(car, throttle, boost),
                          duration - PHYSICS_DT, throttle, boost)

\* CarForwardDodge::calc_1d: what a forward dodge at this speed does.
CarForwardDodge_calc_1d(speed) ==
    LET end_speed == Min(speed + DODGE_IMPULSE, MAX_SPEED)
    IN [start_speed |-> speed, end_speed |-> end_speed,
        end_dist |-> end_speed * DODGE_DURATION, duration |-> DODGE_DURATION]

TargetTimes == {NoneOpt} \cup {Some(t) : t \in 1..MaxTargetTime}

DodgeCalculators ==
    [start_speed : 0..THROTTLE_TOP, boost : {0, 3},
     target_traveled : 1..MaxTargetDist,
     target_time : TargetTimes,
     end_chop : 0..MaxEndChop]

\* The quantities evaluate() compares, for a dodge at the end of the approach.
dodge_end(calc, approach) ==
    Car1D_multi_step(
        Car1D_new(CarForwardDodge_calc_1d(approach.speed).end_speed, approach.boost),
        calc.end_chop, 0, FALSE)

total_time_MutNoChop(calc, approach) ==
    approach.time + CarForwardDodge_calc_1d(approach.speed).duration

total_time(calc, approach) ==
    approach.time + CarForwardDodge_calc_1d(approach.speed).duration
        + dodge_end(calc, approach).time

total_dist(calc, approach) ==
    approach.distance + CarForwardDodge_calc_1d(approach.speed).end_dist
        + dodge_end(calc, approach).distance

coast(calc, approach) ==
    Car1D_multi_step(
        Car1D_new(CarForwardDodge_calc_1d(approach.speed).end_speed, approach.boost),
        calc.target_time[1] - total_time(calc, approach), 0, FALSE)

RECURSIVE blitz(_, _)
blitz(car, remaining) ==
    IF car.distance < remaining
    THEN blitz(Car1D_step(car, 1, TRUE), remaining)
    ELSE car

evaluate_MutOvershootInclusive(calc, approach) ==
    LET dodge == CarForwardDodge_calc_1d(approach.speed)
    IN IF calc.target_time # NoneOpt /\ total_time(calc, approach) > calc.target_time[1]
       THEN NoneOpt
       ELSE IF total_dist(calc, approach) > calc.target_traveled
       THEN NoneOpt
       ELSE IF calc.target_time # NoneOpt
               /\ total_dist(calc, approach) + coast(calc, approach).distance
                      > calc.target_traveled
       THEN NoneOpt
       ELSE Some([approach_distance |-> approach.distance,
                  dodge |-> dodge,
                  score |-> total_time(calc, approach)
                            + blitz(Car1D_new(dodge.end_speed, approach.boost),
                                    calc.target_traveled
                                        - total_dist(calc, approach)).time])

\* StraightDodgeCalculator::evaluate
evaluate(calc, approach) ==
    LET dodge == CarForwardDodge_calc_1d(approach.speed)
    IN IF calc.target_time # NoneOpt /\ total_time(calc, approach) > calc.target_time[1]
       THEN NoneOpt
       ELSE IF total_dist(calc, approach) >= calc.target_traveled
       THEN NoneOpt
       ELSE IF calc.target_time # NoneOpt
               /\ total_dist(calc, approach) + coast(calc, approach).distance
                      > calc.target_traveled
       THEN NoneOpt
       ELSE Some([approach_distance |-> approach.distance,
                  dodge |-> dodge,
                  score |-> total_time(calc, approach)
                            + blitz(Car1D_new(dodge.end_speed, approach.boost),
                                    calc.target_traveled
                                        - total_dist(calc, approach)).time])

\* StraightDodgeCalculator::collect: the loop, with the approach so far.
RECURSIVE collect_loop(_, _, _)
collect_loop(calc, car, results) ==
    IF calc.target_time # NoneOpt /\ car.time >= calc.target_time[1]
    THEN results
    ELSE LET approach == Car1D_multi_step(car, GRANULARITY, 1, TRUE)
             dodge == evaluate(calc, approach)
         IN IF dodge = NoneOpt
            THEN results
            ELSE collect_loop(calc, approach, Append(results, dodge[1]))

collect(calc) == collect_loop(calc, Car1D_new(calc.start_speed, calc.boost), <<>>)

\* StraightWithDodge::plan, once past its guards: the dodge of the lowest
\* score, or MovingTooFast.
choose_dodge(calc) ==
    LET dodges == collect(calc)
    IN IF dodges = <<>>
       THEN [ok |-> FALSE, dodge |-> NoneOpt, err |-> MovingTooFast]
       ELSE [ok |-> TRUE, dodge |-> Some(dodges[min_by_score(dodges)]), err |-> NoError]

NoDodgeCall == [op |-> "none", dodges |-> <<>>, ret |-> [ok |-> FALSE, dodge |-> NoneOpt, err |-> NoError]]

DodgeInit ==
    /\ dodgeCalc \in DodgeCalculators
    /\ dodgeOut = NoDodgeCall

DodgeParked ==
    /\ dodgeCalc = [start_speed |-> 0, boost |-> 0, target_traveled |-> 1,
                    target_time |-> NoneOpt, end_chop |-> 0]
    /\ dodgeOut = NoDodgeCall

\* StraightWithDodge::plan collects the dodges and keeps the best.
ChooseDodge ==
    /\ dodgeOut' = [op |-> "choose", dodges |-> collect(dodgeCalc),
                    ret |-> choose_dodge(dodgeCalc)]
    /\ UNCHANGED dodgeCalc
    /\ UNCHANGED notDodge

(***************************************************************************)
(* Brain::tick (brain.rs)                                                  *)
(*                                                                         *)
(* An f32 is a number, in tenths, or NaN.  Every comparison with NaN is    *)
(* false.                                                                  *)
(***************************************************************************)
CLAMP_MAX == 10

F(v) == [nan |-> FALSE, v |-> v]

NaN == [nan |-> TRUE, v |-> 0]

gt(a, b) == ~a.nan /\ ~b.nan /\ a.v > b.v

lt(a, b) == ~a.nan /\ ~b.nan /\ a.v < b.v

\* nalgebra::clamp
clamp(val, min, max) ==
    IF gt(val, min)
    THEN IF lt(val, max) THEN val ELSE max
    ELSE min

\* NotNan::new(x).unwrap(): whether it panics.
NotNan_new_unwrap_panics(x) == x.nan

Axes == {"Throttle", "Steer", "Pitch", "Yaw", "Roll"}
Buttons == {"Jump", "Boost", "Handbrake"}
AxisValues == {F(-15), F(4), F(15), NaN}

\* What the tick works from: the intercept time simulate_ball_blitz finds for
\* the enemy car, if any; the duration of the plan the running behavior
\* compares; and the command the running behavior yields.
BrainInputs ==
    [enemy_time : {NoneOpt, Some(F(12)), Some(NaN)},
     plan_duration : {F(20), NaN},
     axes : [Axes -> AxisValues],
     buttons : [Buttons -> BOOLEAN]]

Returned_input(axes, buttons) == [status |-> "returned", axes |-> axes, buttons |-> buttons]

Panicked ==
    [status |-> "panicked", axes |-> [a \in Axes |-> F(0)],
     buttons |-> [b \in Buttons |-> FALSE]]

\* common::halfway_house::PlayerInput::default(), returned.
SafeDefault == Returned_input([a \in Axes |-> F(0)], [b \in Buttons |-> FALSE])

\* Scenario::race, as far as the enemy's intercept time reaches min_by_key.
race_panics(in) ==
    in.enemy_time # NoneOpt /\ NotNan_new_unwrap_panics(in.enemy_time[1])

\* Brain::determine_controls: possession is printed, then the runner runs; a
\* planner on its way compares plans by NotNan::new(duration).unwrap().
determine_controls(in) ==
    IF race_panics(in) THEN Panicked
    ELSE IF NotNan_new_unwrap_panics(in.plan_duration) THEN Panicked
    ELSE Returned_input(in.axes, in.buttons)

Brain_tick_MutNoRollClamp(in) ==
    LET controls == determine_controls(in)
    IN IF controls.status = "panicked"
       THEN controls
       ELSE [controls EXCEPT
                !.axes = [a \in Axes |->
                             IF a = "Roll" THEN controls.axes[a]
                             ELSE clamp(controls.axes[a], F(-CLAMP_MAX), F(CLAMP_MAX))]]

Brain_tick(in) ==
    LET controls == determine_controls(in)
    IN IF controls.status = "panicked"
       THEN controls
       ELSE [controls EXCEPT
                !.axes = [a \in Axes |->
                             clamp(controls.axes[a], F(-CLAMP_MAX), F(CLAMP_MAX))]]

NoTick == [status |-> "none", axes |-> [a \in Axes |-> F(0)],
           buttons |-> [b \in Buttons |-> FALSE]]

BrainInit ==
    /\ brainIn \in BrainInputs
    /\ brainOut = NoTick

BrainParked ==
    /\ brainIn = [enemy_time |-> NoneOpt, plan_duration |-> F(0),
                  axes |-> [a \in Axes |-> F(0)],
                  buttons |-> [b \in Buttons |-> FALSE]]
    /\ brainOut = NoTick

\* The framework hands the packet of a tick to the brain.
Tick ==
    /\ brainOut' = Brain_tick(brainIn)
    /\ UNCHANGED brainIn
    /\ UNCHANGED notBrain

(***************************************************************************)
(* SameBallTrajectory (rules/same_ball_trajectory.rs)                      *)
(*                                                                         *)
(* Times are in tenths of a second.  The ball prediction of a tick has one *)
(* frame per tenth, the first one at t = 0, and at most PredictionLen      *)
(* frames.                                                                 *)
(***************************************************************************)
MaxGameTime == 3
PredictionLen == 2

ERROR_THRESHOLD == 5
SNAPSHOT_DELAY == 1

BallLocs == {<<0, 0, 0>>, <<3, 0, 0>>, <<3, 4, 0>>, <<6, 8, 0>>, <<0, 0, 7>>}

BallPredictions ==
    UNION {{[i \in 1..n |-> [t |-> i - 1, dt |-> 1, payload |-> locs[i]]] :
                locs \in [1..n -> BallLocs]} : n \in 1..PredictionLen}

SameBallTrajectory_new == [prediction |-> NoneOpt]

\* (a - b).to_2d().norm(), squared.
norm_2d_squared(a, b) ==
    (a[1] - b[1]) * (a[1] - b[1]) + (a[2] - b[2]) * (a[2] - b[2])

\* The frame eval_vel_changed compares the recorded prediction with.
eval_frame(self, ctx) ==
    LET rel_time == self.prediction[1].t - ctx.time
        f == at_time(ctx.frames, rel_time)
    IN IF f = None THEN start(ctx.frames) ELSE ctx.frames[f]

eval_vel_changed(self, ctx) ==
    IF self.prediction = NoneOpt
    THEN FALSE
    ELSE norm_2d_squared(self.prediction[1].loc, eval_frame(self, ctx).payload)
             >= ERROR_THRESHOLD * ERROR_THRESHOLD

update_snapshot_MutStart(self, ctx) ==
    LET frame == start(ctx.frames)
    IN [self EXCEPT !.prediction = Some([t |-> ctx.time + frame.t, loc |-> frame.payload])]

update_snapshot(self, ctx) ==
    LET frame == ctx.frames[at_time_or_last(ctx.frames, SNAPSHOT_DELAY)]
    IN [self EXCEPT !.prediction = Some([t |-> ctx.time + frame.t, loc |-> frame.payload])]

\* SameBallTrajectory::execute_old: the task afterwards and the Option<Action>.
SameBallTrajectory_execute_old(self, ctx) ==
    IF eval_vel_changed(self, ctx)
    THEN [self |-> self, action |-> Some(Abort)]
    ELSE [self |-> update_snapshot(self, ctx), action |-> NoneOpt]

NotExecuted == [called |-> FALSE, before |-> SameBallTrajectory_new, action |-> NoneOpt]

SbtInit ==
    /\ sbt = SameBallTrajectory_new
    /\ sbtCtx \in [time : {0}, frames : BallPredictions]
    /\ sbtOut = NotExecuted

SbtParked ==
    /\ sbt = SameBallTrajectory_new
    /\ sbtCtx = [time |-> 0, frames |-> <<>>]
    /\ sbtOut = NotExecuted

\* The behavior that owns the rule runs it first thing in its tick, with the
\* prediction of that tick, until the rule aborts it.
SameBallTrajectoryExecute ==
    /\ sbtOut.action # Some(Abort)
    /\ \E time \in sbtCtx.time..MaxGameTime, fs \in BallPredictions :
           /\ sbtOut.called => time > sbtCtx.time
           /\ ~sbtOut.called => (time = sbtCtx.time /\ fs = sbtCtx.frames)
           /\ LET ctx == [time |-> time, frames |-> fs]
                  r == SameBallTrajectory_execute_old(sbt, ctx)
              IN /\ sbtCtx' = ctx
                 /\ sbt' = r.self
                 /\ sbtOut' = [called |-> TRUE, before |-> sbt, action |-> r.action]
    /\ UNCHANGED notSbt

(***************************************************************************)
(* TepidHit (behavior/offense/tepid_hit.rs)                                *)
(*                                                                         *)
(* Angles are in degrees, lengths in uu.  The intercept calculators, the   *)
(* hit-angle helpers and the WallRayCalculator are evaluated outside of    *)
(* TepidHit: the context under test carries what they return.              *)
(***************************************************************************)
MaxEstimate == 3

MAX_PUSH_ANGLE == 60
SIDE_WALL_MARGIN == 500

Estimates == {NoneOpt} \cup {Some(t) : t \in 1..MaxEstimate}

\* What TepidHit::execute works from: the time of the ground intercept and of
\* the wall intercept, if any, the push angle of the wall intercept and how
\* far inside the side wall it is.
HitContexts ==
    [ground_t : Estimates, wall_t : Estimates,
     push_angle : {MAX_PUSH_ANGLE - 1, MAX_PUSH_ANGLE},
     wall_gap : {SIDE_WALL_MARGIN, SIDE_WALL_MARGIN + 1}]

Walls == {"OwnGoal", "EnemyGoal", "SideWall"}

\* The points WallRayCalculator::calculate can come back with.
WallPoints == [wall : Walls, of : {"toward", "away"}]

\* What time_wasting_hit works from: the two naive angles, where the ray
\* through each of the two aims meets the wall, and what is_chippable reads.
AimContexts ==
    [naive_offense : {-2, 1, 2}, naive_defense : {-2, 1, 2},
     toward : {p \in WallPoints : p.of = "toward"},
     away : {p \in WallPoints : p.of = "away"},
     intercept_time : {1},
     far_side : BOOLEAN, near_goal_line : BOOLEAN, low : BOOLEAN,
     shot_angle_ok : BOOLEAN, goalward_ok : BOOLEAN]

abs(x) == IF x < 0 THEN -x ELSE x

\* ground(): the ground intercept, if there is one.
ground(ctx) ==
    IF ctx.ground_t = NoneOpt THEN NoneOpt
    ELSE Some([duration |-> ctx.ground_t[1], typ |-> "Ground"])

\* wall(): the wall intercept, if it pushes the ball upfield on a side wall.
wall(ctx) ==
    IF ctx.wall_t = NoneOpt THEN NoneOpt
    ELSE IF ctx.push_angle >= MAX_PUSH_ANGLE THEN NoneOpt
    ELSE IF ctx.wall_gap > SIDE_WALL_MARGIN THEN NoneOpt
    ELSE Some([duration |-> ctx.wall_t[1], typ |-> "Wall"])

\* hits.into_iter().flatten()
flatten(hits) ==
    LET flat[i \in 0..Len(hits)] ==
            IF i = 0 THEN <<>>
            ELSE IF hits[i] = NoneOpt THEN flat[i - 1]
            ELSE Append(flat[i - 1], hits[i][1])
    IN flat[Len(hits)]

min_by_duration_MutLast(hits) ==
    IF hits = <<>>
    THEN NoneOpt
    ELSE Some(hits[CHOOSE i \in 1..Len(hits) :
                       /\ \A j \in 1..Len(hits) : hits[i].duration <= hits[j].duration
                       /\ \A j \in (i + 1)..Len(hits) :
                              hits[j].duration > hits[i].duration])

\* Iterator::min_by_key over the durations: the first of the shortest.
min_by_duration(hits) ==
    IF hits = <<>>
    THEN NoneOpt
    ELSE Some(hits[CHOOSE i \in 1..Len(hits) :
                       /\ \A j \in 1..Len(hits) : hits[i].duration <= hits[j].duration
                       /\ \A j \in 1..(i - 1) : hits[j].duration > hits[i].duration])

\* TepidHit::execute: the hit it settles on, then the Call of its chain.
TepidHit_hit(ctx) == min_by_duration(flatten(<<ground(ctx), wall(ctx)>>))

TepidHit_execute_ctx(ctx) ==
    LET hit == TepidHit_hit(ctx)
    IN TepidHit_execute(TepidHit_new,
                        [hit |-> IF hit # NoneOpt /\ hit[1].typ = "Wall"
                                 THEN "Wall" ELSE "Ground"]).action

is_chippable(ctx) ==
    /\ ctx.far_side
    /\ ctx.near_goal_line
    /\ ctx.low
    /\ ctx.shot_angle_ok
    /\ ctx.goalward_ok

WallRayCalculator_wall_for_point(p) == p.wall

time_wasting_hit_MutAwayUnchecked(ctx) ==
    LET toward == abs(ctx.naive_offense) < abs(ctx.naive_defense)
        aim_loc == IF toward THEN ctx.toward ELSE ctx.away
    IN IF toward /\ WallRayCalculator_wall_for_point(aim_loc) = "OwnGoal"
       THEN [ok |-> FALSE, target |-> NoneOpt]
       ELSE [ok |-> TRUE,
             target |-> Some([time |-> ctx.intercept_time, adjust |-> "RoughAim",
                              aim_loc |-> aim_loc, dodge |-> ~is_chippable(ctx)])]

\* time_wasting_hit
time_wasting_hit(ctx) ==
    LET aim_loc == IF abs(ctx.naive_offense) < abs(ctx.naive_defense)
                   THEN ctx.toward
                   ELSE ctx.away
    IN IF WallRayCalculator_wall_for_point(aim_loc) = "OwnGoal"
       THEN [ok |-> FALSE, target |-> NoneOpt]
       ELSE [ok |-> TRUE,
             target |-> Some([time |-> ctx.intercept_time, adjust |-> "RoughAim",
                              aim_loc |-> aim_loc, dodge |-> ~is_chippable(ctx)])]

ParkedHit ==
    [ground_t |-> NoneOpt, wall_t |-> NoneOpt,
     push_angle |-> MAX_PUSH_ANGLE, wall_gap |-> SIDE_WALL_MARGIN]

ParkedAim ==
    [naive_offense |-> 1, naive_defense |-> 1,
     toward |-> [wall |-> "SideWall", of |-> "toward"],
     away |-> [wall |-> "SideWall", of |-> "away"],
     intercept_time |-> 1,
     far_side |-> FALSE, near_goal_line |-> FALSE, low |-> FALSE,
     shot_angle_ok |-> FALSE, goalward_ok |-> FALSE]

NoTepid == [op |-> "none", action |-> Abort, aim |-> [ok |-> FALSE, target |-> NoneOpt]]

TepidInit ==
    /\ tepidCtx \in [hit : HitContexts, aim : {ParkedAim}]
                        \cup [hit : {ParkedHit}, aim : AimContexts]
    /\ tepidOut = NoTepid

TepidParked ==
    /\ tepidCtx = [hit |-> ParkedHit, aim |-> ParkedAim]
    /\ tepidOut = NoTepid

\* The runner executes TepidHit.
TepidHitExecute ==
    /\ tepidCtx.aim = ParkedAim
    /\ tepidOut' = [NoTepid EXCEPT !.op = "execute",
                                   !.action = TepidHit_execute_ctx(tepidCtx.hit)]
    /\ UNCHANGED tepidCtx
    /\ UNCHANGED notTepid

\* GroundedHit asks time_wasting_hit where to aim.
TimeWastingHit ==
    /\ tepidCtx.hit = ParkedHit
    /\ tepidOut' = [NoTepid EXCEPT !.op = "aim",
                                   !.aim = time_wasting_hit(tepidCtx.aim)]
    /\ UNCHANGED tepidCtx
    /\ UNCHANGED notTepid

(***************************************************************************)
(* BallTrajectory::iter_step_by (helpers/ball.rs)                          *)
(*                                                                         *)
(* Times are in units of 1/120 s here: the 0.125 s of simulate_ball_blitz  *)
(* is a step of 15.                                                        *)
(***************************************************************************)
MaxStepDt == 15
MaxStepFrames == 9

\* DT of ChipBallPrediction (rl::PHYSICS_DT, the physics step of 1/120 s) and
\* of FrameworkBallPrediction (1/60 s).
CHIP_DT == 1
FRAMEWORK_DT == 2

\* A trajectory of n frames spaced by its own dt, first frame at t = 0.
SpacedTrajectory(fdt, n) ==
    [i \in 1..n |-> [t |-> (i - 1) * fdt, dt |-> fdt, payload |-> i]]

\* The calls of iter_step_by: the trajectory, the step asked for, and the
\* target family the crate was built for.
StepCalls ==
    [fdt : {CHIP_DT, FRAMEWORK_DT}, n : 1..MaxStepFrames, dt : 1..MaxStepDt,
     windows : BOOLEAN]

\* "fractionality(factor) <= 1e-5", factor being dt / fdt.
integral(dt, fdt) == dt % fdt = 0

\* f32::round of dt / fdt: to the nearest, halves away from zero.
round_factor(dt, fdt) == (2 * dt + fdt) \div (2 * fdt)

\* Iterator::step_by(step) over the frames.
step_by(fs, step) ==
    [k \in 1..((Len(fs) - 1) \div step + 1) |-> fs[(k - 1) * step + 1]]

StepPanicked == [panicked |-> TRUE, frames |-> <<>>]

Stepped(fs) == [panicked |-> FALSE, frames |-> fs]

\* iter_step_by; the assert is compiled for the windows target family only.
iter_step_by(fs, dt, windows) ==
    IF windows /\ ~integral(dt, fs[1].dt)
    THEN StepPanicked
    ELSE LET factor == round_factor(dt, fs[1].dt)
         IN IF factor = 0
            THEN StepPanicked
            ELSE LET stepped == step_by(fs, factor)
                 IN Stepped([k \in 1..Len(stepped) |-> [stepped[k] EXCEPT !.dt = dt]])

NoStepCall == [fdt |-> CHIP_DT, n |-> 1, dt |-> 1, windows |-> FALSE]

NotStepped == [done |-> FALSE, out |-> Stepped(<<>>)]

StepInit ==
    /\ stepIn \in StepCalls
    /\ stepOut = NotStepped

StepParked ==
    /\ stepIn = NoStepCall
    /\ stepOut = NotStepped

\* One call of iter_step_by, collected.
IterStepBy ==
    /\ ~stepOut.done
    /\ stepOut' = [done |-> TRUE,
                   out |-> iter_step_by(SpacedTrajectory(stepIn.fdt, stepIn.n),
                                        stepIn.dt, stepIn.windows)]
    /\ UNCHANGED stepIn
    /\ UNCHANGED notStep

(***************************************************************************)
(* BlitzToLocation::execute_old in full (behavior/movement/                *)
(* blitz_to_location.rs)                                                   *)
(*                                                                         *)
(* Speeds are in uu/s, distances in uu, the steer angle in units of        *)
(* PI / 24 and the pitch in degrees.  The constants of common::rl are not  *)
(* part of the sources; they have the values of the game.                  *)
(***************************************************************************)
BOOST_MIN_DISTANCE == 1000
BOOST_MAX_STEER == 6
BOOST_SLOW_SPEED == 1500
BOOST_FAST_SPEED == 2000
CAR_ALMOST_MAX_SPEED == 2299
CAR_MAX_SPEED == 2300
DODGE_FORWARD_IMPULSE == 500
WAVEDASH_MAX_PITCH == 1
WAVEDASH_MIN_SPEED == 900
WAVEDASH_MAX_SPEED == 2200
WAVEDASH_NEAR_STEER == 1
WAVEDASH_FAR_STEER == 3

\* rl::PHYSICS_TICK_FREQ
PHYSICS_TICK_FREQ == 120

BlitzSpeeds ==
    {0, WAVEDASH_MIN_SPEED - 1, WAVEDASH_MIN_SPEED, BOOST_SLOW_SPEED - 1,
     BOOST_SLOW_SPEED, BOOST_FAST_SPEED - 1, BOOST_FAST_SPEED,
     WAVEDASH_MAX_SPEED - 1, WAVEDASH_MAX_SPEED, CAR_ALMOST_MAX_SPEED,
     CAR_MAX_SPEED}

BlitzDistances == {BOOST_MIN_DISTANCE, BOOST_MIN_DISTANCE + 1, 2338, 2339, 3507, 3508, 5000}

BlitzContexts ==
    [distance : BlitzDistances, speed : BlitzSpeeds, OnGround : BOOLEAN,
     steer : {0, WAVEDASH_NEAR_STEER, WAVEDASH_FAR_STEER, BOOST_MAX_STEER},
     pitch : {0, WAVEDASH_MAX_PITCH}, Boost : {0, 33}]

\* Wavedash::estimated_duration, in physics ticks.
Wavedash_estimated_duration ==
    JUMP_INPUT_TIME + PITCH_ADJUSTMENT_TIME + DODGE_WAIT_TIME + JUMP_INPUT_TIME
        + FOLLOW_THROUGH_TIME

\* "Should we boost?"
should_boost(ctx) ==
    /\ ctx.distance > BOOST_MIN_DISTANCE
    /\ ctx.OnGround
    /\ ctx.steer < BOOST_MAX_STEER
    /\ \/ ctx.speed < BOOST_SLOW_SPEED
       \/ (BOOST_FAST_SPEED <= ctx.speed /\ ctx.speed < CAR_ALMOST_MAX_SPEED)
    /\ ctx.Boost > 0

\* "Wavedash?"
may_wavedash(ctx) ==
    /\ ctx.OnGround
    /\ ctx.pitch < WAVEDASH_MAX_PITCH
    /\ (WAVEDASH_MIN_SPEED <= ctx.speed \/ ctx.Boost = 0)
    /\ ctx.speed < WAVEDASH_MAX_SPEED

\* "(speed + rl::DODGE_FORWARD_IMPULSE).max(rl::CAR_MAX_SPEED)"
wavedash_speed(speed) == Max(speed + DODGE_FORWARD_IMPULSE, CAR_MAX_SPEED)

\* "distance > wavedash_dist && steer.abs() < PI / 24.0 || distance >
\* wavedash_dist * 1.5 && steer.abs() < PI / 8.0", wavedash_dist being
\* wavedash_speed * assumed_wavedash_duration; written without fractions.
far_enough_to_wavedash(ctx) ==
    LET dist_ticks == wavedash_speed(ctx.speed) * Wavedash_estimated_duration
    IN \/ /\ ctx.distance * PHYSICS_TICK_FREQ > dist_ticks
          /\ ctx.steer < WAVEDASH_NEAR_STEER
       \/ /\ 2 * ctx.distance * PHYSICS_TICK_FREQ > 3 * dist_ticks
          /\ ctx.steer < WAVEDASH_FAR_STEER

\* BlitzToLocation::execute_old: the Action, and the speed assumed for the
\* wavedash if it came to computing it.
BlitzToLocation_execute_full(ctx) ==
    IF should_boost(ctx)
    THEN [action |-> Yield(PlayerInput(FALSE, 0, FALSE, 1, TRUE)),
          wavedash_speed |-> NoneOpt]
    ELSE IF may_wavedash(ctx) /\ far_enough_to_wavedash(ctx)
    THEN [action |-> TailCall(Chain_new("Idle", <<Leaf("Yielder"), Wavedash_new>>)),
          wavedash_speed |-> Some(wavedash_speed(ctx.speed))]
    ELSE [action |-> Yield(PlayerInput(FALSE, 0, FALSE, 1, FALSE)),
          wavedash_speed |-> IF may_wavedash(ctx)
                             THEN Some(wavedash_speed(ctx.speed))
                             ELSE NoneOpt]

NoBlitzContext ==
    [distance |-> BOOST_MIN_DISTANCE, speed |-> 0, OnGround |-> FALSE,
     steer |-> 0, pitch |-> 0, Boost |-> 0]

NoBlitz == [called |-> FALSE, action |-> NoAction, wavedash_speed |-> NoneOpt]

BlitzInit ==
    /\ blitzCtx \in BlitzContexts
    /\ blitzOut = NoBlitz

BlitzParked ==
    /\ blitzCtx = NoBlitzContext
    /\ blitzOut = NoBlitz

\* One tick of BlitzToLocation.
BlitzExecute ==
    /\ ~blitzOut.called
    /\ LET r == BlitzToLocation_execute_full(blitzCtx)
       IN blitzOut' = [called |-> TRUE, action |-> r.action,
                       wavedash_speed |-> r.wavedash_speed]
    /\ UNCHANGED blitzCtx
    /\ UNCHANGED notBlitz

(***************************************************************************)
(* routing::plan::pathing: avoid_smacking_goal_wall_waypoint.  Lengths are *)
(* in unreal units, rounded to integers; the forward axis is an integer    *)
(* direction (ray_x, ray_y), of which only the direction matters, since    *)
(* toi * ray.x is unchanged when the ray is scaled.  The f32 quotient is   *)
(* modelled exactly where it is finite and by IEEE-754 where it is not.    *)
(***************************************************************************)
FIELD_MAX_Y == 5120

GOALPOST_X == 893

margin == 125

MaxRay == 2

signum(x) == IF x < 0 THEN -1 ELSE 1

PathXs == {-800, -400, 0, 400, 800}

PathYs == {-5500, -5200, -FIELD_MAX_Y, -5000, 0, 5000, FIELD_MAX_Y, 5200, 5500}

PathRays == {r \in (-MaxRay .. MaxRay) \X (-MaxRay .. MaxRay) : r # <<0, 0>>}

PathStarts ==
    {[x |-> x, y |-> y, ray_x |-> r[1], ray_y |-> r[2]] :
        x \in PathXs, y \in PathYs, r \in PathRays}

goal_y(st) == FIELD_MAX_Y * signum(st.y)

\* ray.y * cross_x, where toi = (goal_y - start.loc.y) / ray.y is finite.
cross_x_times_ray_y(st) ==
    st.x * st.ray_y + (goal_y(st) - st.y) * st.ray_x

\* cross_x.abs() >= rl::GOALPOST_X.  With ray.y = 0 the quotient is an
\* infinity when its numerator is not zero and NaN when it is; NaN compares
\* false, and so does 0 * infinity.
cross_x_beyond_post(st) ==
    IF st.ray_y = 0
    THEN (goal_y(st) - st.y) # 0 /\ st.ray_x # 0
    ELSE abs(cross_x_times_ray_y(st)) >= GOALPOST_X * abs(st.ray_y)

cross_x_signum(st) ==
    IF st.ray_y = 0
    THEN signum(goal_y(st) - st.y) * signum(st.ray_x)
    ELSE signum(cross_x_times_ray_y(st)) * signum(st.ray_y)

avoid_smacking_goal_wall_waypoint(st) ==
    IF abs(st.y) < FIELD_MAX_Y
    THEN NoneOpt
    ELSE IF cross_x_beyond_post(st)
         THEN Some([x |-> (GOALPOST_X - margin) * cross_x_signum(st),
                    y |-> (FIELD_MAX_Y - margin) * signum(st.y)])
         ELSE NoneOpt

NoPathStart == [x |-> 0, y |-> 0, ray_x |-> 1, ray_y |-> 0]

NoPath == [called |-> FALSE, waypoint |-> NoneOpt]

PathInit ==
    /\ pathStart \in PathStarts
    /\ pathOut = NoPath

PathParked ==
    /\ pathStart = NoPathStart
    /\ pathOut = NoPath

\* One call of avoid_smacking_goal_wall_waypoint.
AvoidSmackingGoalWallWaypoint ==
    /\ ~pathOut.called
    /\ pathOut' = [called |-> TRUE,
                   waypoint |-> avoid_smacking_goal_wall_waypoint(pathStart)]
    /\ UNCHANGED pathStart
    /\ UNCHANGED notPath

(***************************************************************************)
(* simulate_ball_blitz in full (strategy/scenario.rs)                      *)
(*                                                                         *)
(* Times are in units of 1/120 s, as for iter_step_by; the car is the 1-D  *)
(* car of the dodge search, which moves one tick per unit of time.  The    *)
(* distance from the car to the ball of an examined frame and the penalty  *)
(* of naive_intercept_penalty come with the call.                          *)
(***************************************************************************)
MaxSimFrames == 17
MaxExamined == 3

\* The step simulate_ball_blitz asks iter_step_by for: 0.125 s.
BLITZ_STEP == 15

SimDists == {0, 60, 150, 1000}

SimPenalties == {0, 1, 3, 40}

\* ChipBallPrediction exists in builds for the windows family only.
SimCalls ==
    {c \in [fdt : {CHIP_DT, FRAMEWORK_DT}, n : 1..MaxSimFrames,
            windows : BOOLEAN, speed_towards_ball : {-2, 2},
            speed_with_ball : {0}, Boost : {0, 40},
            dist_to_ball : [1..MaxExamined -> SimDists],
            penalty : SimPenalties] :
        c.fdt = CHIP_DT => c.windows}

\* blitz_start
blitz_start(c) ==
    Car1D_new(Max(Max(c.speed_towards_ball, c.speed_with_ball), 0), c.Boost)

\* The for loop of simulate_ball_blitz over the resampled frames: what it
\* saw at each frame it examined, and the frame it broke at, if any.
RECURSIVE simulate_ball_blitz_loop(_, _, _, _, _)
simulate_ball_blitz_loop(balls, k, sim, c, seen) ==
    IF k > Len(balls)
    THEN [examined |-> seen, naive_result |-> NoneOpt]
    ELSE LET ball == balls[k]
             look == [t |-> ball.t, sim_time |-> sim.time,
                      distance |-> sim.distance,
                      dist_to_ball |-> c.dist_to_ball[k]]
         IN IF sim.distance >= c.dist_to_ball[k]
            THEN [examined |-> Append(seen, look), naive_result |-> Some(ball)]
            ELSE simulate_ball_blitz_loop(
                     balls, k + 1, Car1D_multi_step(sim, ball.dt, 1, TRUE),
                     c, Append(seen, look))

SimPanicked == [done |-> TRUE, panicked |-> TRUE, examined |-> <<>>, time |-> NoneOpt]

\* simulate_ball_blitz: Some(NaiveIntercept.time), or None.
simulate_ball_blitz_full(ball_prediction, c) ==
    LET stepped == iter_step_by(ball_prediction, BLITZ_STEP, c.windows)
    IN IF stepped.panicked
       THEN SimPanicked
       ELSE LET r == simulate_ball_blitz_loop(stepped.frames, 1, blitz_start(c),
                                              c, <<>>)
            IN IF r.naive_result = NoneOpt
               THEN [done |-> TRUE, panicked |-> FALSE, examined |-> r.examined,
                     time |-> NoneOpt]
               ELSE LET i == at_time_or_last(ball_prediction,
                                             r.naive_result[1].t + c.penalty)
                    IN [done |-> TRUE, panicked |-> FALSE,
                        examined |-> r.examined,
                        time |-> Some(ball_prediction[i].t
                                        - start(ball_prediction).t)]

NoSimCall ==
    [fdt |-> CHIP_DT, n |-> 1, windows |-> TRUE, speed_towards_ball |-> 2,
     speed_with_ball |-> 0, Boost |-> 0,
     dist_to_ball |-> [k \in 1..MaxExamined |-> 0], penalty |-> 0]

NotSimulated == [done |-> FALSE, panicked |-> FALSE, examined |-> <<>>, time |-> NoneOpt]

SimInit ==
    /\ simIn \in SimCalls
    /\ simOut = NotSimulated

SimParked ==
    /\ simIn = NoSimCall
    /\ simOut = NotSimulated

\* One call of simulate_ball_blitz.
SimulateBallBlitz ==
    /\ ~simOut.done
    /\ simOut' = simulate_ball_blitz_full(SpacedTrajectory(simIn.fdt, simIn.n),
                                          simIn)
    /\ UNCHANGED simIn
    /\ UNCHANGED notSim

(***************************************************************************)
(* Specifications                                                          *)
(***************************************************************************)
InitTraj == TrajInit /\ WdParked /\ RunParked /\ ScnParked /\ PlanParked /\ DodgeParked /\ BrainParked /\ SbtParked /\ TepidParked /\ StepParked /\ BlitzParked /\ PathParked /\ SimParked

NextTraj ==
    \/ Predict
    \/ ChipPredict
    \/ AtTime
    \/ AtTimeOrLast
    \/ HackyExpensiveSlice

SpecTraj == InitTraj /\ [][NextTraj]_vars

InitWavedash == WdInit /\ TrajParked /\ RunParked /\ ScnParked /\ PlanParked /\ DodgeParked /\ BrainParked /\ SbtParked /\ TepidParked /\ StepParked /\ BlitzParked /\ PathParked /\ SimParked

NextWavedash ==
    \/ WdTick
    \/ JumpPhase
    \/ AdjustPhase
    \/ WaitPhase
    \/ DodgePhase
    \/ FollowThroughPhase
    \/ FinishedPhase

SpecWavedash == InitWavedash /\ [][NextWavedash]_vars

\* The Wavedash is executed in every tick, and the game clock strictly
\* advances from tick to tick.
NextWavedashLive ==
    \/ WdTickAdvancing
    \/ JumpPhase
    \/ AdjustPhase
    \/ WaitPhase
    \/ DodgePhase
    \/ FollowThroughPhase
    \/ FinishedPhase

SpecWavedashLive == InitWavedash /\ [][NextWavedashLive]_vars /\ WF_vars(NextWavedashLive)

InitRunner == RunInit /\ TrajParked /\ WdParked /\ ScnParked /\ PlanParked /\ DodgeParked /\ BrainParked /\ SbtParked /\ TepidParked /\ StepParked /\ BlitzParked /\ PathParked /\ SimParked

NextRunner ==
    \/ RunnerTick
    \/ InterruptRefused
    \/ InterruptNone
    \/ InterruptSubstitute
    \/ Baseline
    \/ TaskYields
    \/ TaskCalls
    \/ TaskTailCalls
    \/ TaskReturns
    \/ TaskAborts

SpecRunner == InitRunner /\ [][NextRunner]_vars

InitScenario == ScnInit /\ TrajParked /\ WdParked /\ RunParked /\ PlanParked /\ DodgeParked /\ BrainParked /\ SbtParked /\ TepidParked /\ StepParked /\ BlitzParked /\ PathParked /\ SimParked

NextScenario ==
    \/ BallPrediction
    \/ MeIntercept
    \/ EnemyIntercept
    \/ Possession
    \/ PushWall
    \/ ImpendingScoreConservative
    \/ ImpendingConcede
    \/ EnemyShootScoreSeconds
    \/ SlightlyPanickyRetreat
    \/ VeryPanickyRetreat

SpecScenario == InitScenario /\ [][NextScenario]_vars

InitPlan == PlanInit /\ TrajParked /\ WdParked /\ RunParked /\ ScnParked /\ DodgeParked /\ BrainParked /\ SbtParked /\ TepidParked /\ StepParked /\ BlitzParked /\ PathParked /\ SimParked

NextPlan ==
    \/ Plan

SpecPlan == InitPlan /\ [][NextPlan]_vars

InitDodge == DodgeInit /\ TrajParked /\ WdParked /\ RunParked /\ ScnParked /\ PlanParked /\ BrainParked /\ SbtParked /\ TepidParked /\ StepParked /\ BlitzParked /\ PathParked /\ SimParked

NextDodge ==
    \/ ChooseDodge

SpecDodge == InitDodge /\ [][NextDodge]_vars

InitBrain == BrainInit /\ TrajParked /\ WdParked /\ RunParked /\ ScnParked /\ PlanParked /\ DodgeParked /\ SbtParked /\ TepidParked /\ StepParked /\ BlitzParked /\ PathParked /\ SimParked

NextBrain ==
    \/ Tick

SpecBrain == InitBrain /\ [][NextBrain]_vars

InitSbt == SbtInit /\ TrajParked /\ WdParked /\ RunParked /\ ScnParked /\ PlanParked /\ DodgeParked /\ BrainParked /\ TepidParked /\ StepParked /\ BlitzParked /\ PathParked /\ SimParked

NextSbt ==
    \/ SameBallTrajectoryExecute

SpecSbt == InitSbt /\ [][NextSbt]_vars

InitTepid == TepidInit /\ TrajParked /\ WdParked /\ RunParked /\ ScnParked /\ PlanParked /\ DodgeParked /\ BrainParked /\ SbtParked /\ StepParked /\ BlitzParked /\ PathParked /\ SimParked

NextTepid ==
    \/ TepidHitExecute
    \/ TimeWastingHit

SpecTepid == InitTepid /\ [][NextTepid]_vars

InitStep == StepInit /\ TrajParked /\ WdParked /\ RunParked /\ ScnParked /\ PlanParked /\ DodgeParked /\ BrainParked /\ SbtParked /\ TepidParked /\ BlitzParked /\ PathParked /\ SimParked

NextStep ==
    \/ IterStepBy

SpecStep == InitStep /\ [][NextStep]_vars

InitBlitz == BlitzInit /\ TrajParked /\ WdParked /\ RunParked /\ ScnParked /\ PlanParked /\ DodgeParked /\ BrainParked /\ SbtParked /\ TepidParked /\ StepParked /\ PathParked /\ SimParked

NextBlitz ==
    \/ BlitzExecute

SpecBlitz == InitBlitz /\ [][NextBlitz]_vars

InitPath == PathInit /\ TrajParked /\ WdParked /\ RunParked /\ ScnParked /\ PlanParked /\ DodgeParked /\ BrainParked /\ SbtParked /\ TepidParked /\ StepParked /\ BlitzParked /\ SimParked

NextPath ==
    \/ AvoidSmackingGoalWallWaypoint

SpecPath == InitPath /\ [][NextPath]_vars

InitSim == SimInit /\ TrajParked /\ WdParked /\ RunParked /\ ScnParked /\ PlanParked /\ DodgeParked /\ BrainParked /\ SbtParked /\ TepidParked /\ StepParked /\ BlitzParked /\ PathParked

NextSim ==
    \/ SimulateBallBlitz

SpecSim == InitSim /\ [][NextSim]_vars


(***************************************************************************)
(* Properties of the trajectory lookup.                                    *)
(***************************************************************************)
\* C8: at_time(t) returns a frame whose t is the smallest frame time that
\* is >= t, and returns None if and only if t is greater than the
\* trajectory's last timestamp.
C8_AtTimeSmallestAtOrAfter ==
    query.op = "at_time" =>
        /\ (result = None) <=> (query.t > last(frames).t)
        /\ result # None =>
            /\ result \in 1 .. Len(frames)
            /\ frames[result].t >= query.t
            /\ \A j \in 1 .. Len(frames) :
                  frames[j].t >= query.t => frames[result].t <= frames[j].t

\* at_time answered a time strictly between two frame times with the later
\* frame, which is not the first frame of the trajectory.
C8_Witness ==
    /\ query.op = "at_time"
    /\ Len(frames) >= 3
    /\ result # None
    /\ result >= 2
    /\ frames[result].t > query.t
    /\ frames[result - 1].t < query.t

\* C9: at_time_or_last(t) always returns a frame; it is the frame at_time(t)
\* returns whenever that is defined, and the last frame whenever t exceeds
\* the last timestamp.
C9_AtTimeOrLastTotal ==
    query.op = "at_time_or_last" =>
        /\ result \in 1 .. Len(frames)
        /\ (query.t <= last(frames).t =>
                /\ frames[result].t >= query.t
                /\ \A j \in 1 .. Len(frames) :
                      frames[j].t >= query.t => frames[result].t <= frames[j].t)
        /\ (query.t > last(frames).t => result = Len(frames))

\* at_time_or_last was asked for a time beyond a trajectory of several
\* frames and answered with the last one.
C9_Witness ==
    /\ query.op = "at_time_or_last"
    /\ Len(frames) >= 2
    /\ query.t > last(frames).t
    /\ result = Len(frames)

\* C10: for every trajectory and every delay, including a delay greater
\* than the trajectory's last timestamp, the first frame of
\* hacky_expensive_slice(delay) has t = 0.
C10_SliceStartsAtZero ==
    query.op = "hacky_expensive_slice" => start(frames).t = 0

FrameTimes(fs) == [i \in 1 .. Len(fs) |-> fs[i].t]

\* The frames of fs with t >= delay.
AtOrAfter(fs, delay) == { i \in 1 .. Len(fs) : fs[i].t >= delay }

\* C11: hacky_expensive_slice(delay) returns the original's frames from the
\* first one with t >= delay to the end, in order, each with its dt,
\* location and velocity and with t reduced by that first frame's t; when no
\* frame has t >= delay it returns the original's last frame alone.
C11_SliceIsShiftedSuffix ==
    query.op = "hacky_expensive_slice" =>
        IF AtOrAfter(prev, query.t) = {}
        THEN frames = <<prev[Len(prev)]>>
        ELSE \E i \in AtOrAfter(prev, query.t) :
                /\ \A j \in AtOrAfter(prev, query.t) : i <= j
                /\ Len(frames) = Len(prev) - i + 1
                /\ \A k \in 1 .. Len(frames) :
                      /\ frames[k].dt = prev[i + k - 1].dt
                      /\ frames[k].payload = prev[i + k - 1].payload
                      /\ frames[k].t = prev[i + k - 1].t - prev[i].t
                /\ \A k \in 1 .. Len(frames) - 1 :
                      frames[k + 1].t - frames[k].t = prev[i + k].t - prev[i + k - 1].t

\* A slice that dropped the first frame, kept two or more and shifted them.
C11_Witness ==
    /\ query.op = "hacky_expensive_slice"
    /\ Len(frames) >= 2
    /\ Len(frames) < Len(prev)
    /\ prev[Len(prev) - Len(frames) + 1].t > 0
    /\ frames[2].t > 0

C13_ForecastCoversHorizon ==
    query.op = "chip_predict" =>
        /\ frames[1].t = 0
        /\ frames[1].payload = query.ball
        /\ \A k \in 1 .. Len(frames) - 1 : frames[k + 1].t - frames[k].t = query.dt
        /\ last(frames).t >= PREDICT_DURATION

\* C14: within a tick, however the accessors of the Scenario are called, the
\* predictor is invoked at most once, the race runs at most once and every
\* fact is computed at most once; an accessor returns what its cell holds, a
\* filled cell is never written again, and so a repeated call returns what
\* the first call returned.
C14_FactsComputedOnce ==
    /\ [](\A r \in Computations : scn.runs[r] <= 1)
    /\ [](lastRet.same)
    /\ [](lastRet.acc \in Cells =>
              filled(scn, lastRet.acc) /\ lastRet.v = borrow(scn, lastRet.acc))
    /\ [][\A c \in Cells : filled(scn, c) => scn'.cells[c] = scn.cells[c]]_vars

\* Every fact of the tick has been computed, each once, and possession was
\* asked for twice.
C14_Witness ==
    /\ lastRet.acc = "possession"
    /\ lastRet.again
    /\ \A c \in Cells : filled(scn, c)
    /\ \A r \in Computations : scn.runs[r] = 1

\* The opposing cars a blitz of which reaches the ball.
Feasible == { i \in 1 .. Len(world.enemies) : world.enemies[i] # NoneOpt }

\* C15: possession is POSSESSION_SATURATED whenever I have no feasible
\* intercept or no opponent has one.
C15_PossessionSaturated ==
    filled(scn, "possession") /\ (world.me = NoneOpt \/ Feasible = {}) =>
        borrow(scn, "possession") = POSSESSION_SATURATED

\* Only I have an intercept, two opponents have none, and possession was
\* asked for.
C15_Witness ==
    /\ lastRet.acc = "possession"
    /\ lastRet.v = POSSESSION_SATURATED
    /\ world.me # NoneOpt
    /\ Len(world.enemies) = 2
    /\ Feasible = {}

\* C16: when I and some opponent have a feasible intercept, possession is
\* the earliest opponent intercept time minus mine, positive exactly when I
\* reach the ball first.
C16_PossessionIsDifference ==
    filled(scn, "possession") /\ world.me # NoneOpt /\ Feasible # {} =>
        /\ \E i \in Feasible :
              /\ \A j \in Feasible : world.enemies[i][1] <= world.enemies[j][1]
              /\ borrow(scn, "possession") = world.enemies[i][1] - world.me[1]
        /\ borrow(scn, "possession") > 0 <=>
              \A j \in Feasible : world.me[1] < world.enemies[j][1]

\* I reach the ball after the faster of two opponents: possession is
\* negative.
C16_Witness ==
    /\ lastRet.acc = "possession"
    /\ lastRet.v < 0
    /\ Cardinality(Feasible) = 2
    /\ world.enemies[1][1] # world.enemies[2][1]

\* C17: enemy_intercept is the feasible intercept of smallest time over the
\* opposing cars, cars without one being ignored, and None only when no
\* opposing car has one.
C17_EnemyInterceptEarliest ==
    filled(scn, "enemy_intercept") =>
        LET e == borrow(scn, "enemy_intercept")
        IN /\ ~e.some <=> Feasible = {}
           /\ e.some =>
                /\ e.car \in Feasible
                /\ e.time = world.enemies[e.car][1]
                /\ \A j \in Feasible : e.time <= world.enemies[j][1]

\* The first opposing car has no intercept and the second has one.
C17_Witness ==
    /\ lastRet.acc = "enemy_intercept"
    /\ Len(world.enemies) = 2
    /\ world.enemies[1] = NoneOpt
    /\ lastRet.v.some
    /\ lastRet.v.car = 2

\* The cells Scenario::race fills.
RaceCells == {"me_intercept", "enemy_intercept", "possession"}

\* C37: in every reachable state of a Scenario the cells me_intercept,
\* enemy_intercept and possession are all empty or all filled, and they are
\* filled exactly when the race has run, which it does once at most: in
\* whatever order the accessors are called, none of them unwraps an empty
\* cell and race() never fills a cell that is filled.
C37_RaceCellsFilledTogether ==
    /\ \/ \A c \in RaceCells : filled(scn, c)
       \/ \A c \in RaceCells : ~filled(scn, c)
    /\ scn.runs["race"] <= 1
    /\ scn.runs["race"] = 1 <=> \A c \in RaceCells : filled(scn, c)
    /\ lastRet.acc \in RaceCells => filled(scn, lastRet.acc)

\* enemy_intercept was asked for twice, and before it an accessor that is
\* not built on the race: the race has run once and its three cells are
\* filled.
C37_Witness ==
    /\ lastRet.acc = "enemy_intercept"
    /\ lastRet.again
    /\ filled(scn, "ball_prediction")
    /\ scn.runs["race"] = 1
    /\ \A c \in RaceCells : filled(scn, c)

(***************************************************************************)
(* Properties of GroundStraightPlanner.                                    *)
(***************************************************************************)
PlanReturned == planned.op = "plan"

\* What each candidate planner answers for the context, in declaration order.
Candidates == <<StraightSimple_plan(planCtx), StraightWithDodge_plan(planCtx)>>

Succeeded == {i \in 1..Len(Candidates) : Candidates[i].ok}

CandidateDuration(i) == SegmentPlan_duration(Candidates[i].plan.segment)

\* C18: GroundStraightPlanner.plan answers from all of its candidates: it is
\* Ok exactly if at least one candidate succeeds; if none does it returns the
\* error of the last failing candidate; otherwise it returns the plan of a
\* successful candidate of the smallest segment duration, and of candidates
\* of equal duration the one declared first (StraightSimple before
\* StraightWithDodge).
C18_FastestOkOrLastError ==
    PlanReturned =>
        /\ planned.ret.ok <=> Succeeded # {}
        /\ Succeeded = {} => planned.ret = Candidates[Len(Candidates)]
        /\ Succeeded # {} =>
               \E i \in Succeeded :
                   /\ planned.ret.plan = Candidates[i].plan
                   /\ \A j \in Succeeded : CandidateDuration(i) <= CandidateDuration(j)
                   /\ \A j \in Succeeded :
                          j < i => CandidateDuration(j) > CandidateDuration(i)

\* Both candidates succeed with equal durations and the plain straight drive
\* is returned.
C18_Witness ==
    /\ PlanReturned
    /\ Succeeded = {1, 2}
    /\ CandidateDuration(1) = CandidateDuration(2)
    /\ planned.ret.ok
    /\ planned.ret.plan.segment.kind = "Straight"

\* C19: for every start state that is skidding, GroundStraightPlanner.plan
\* returns the MustNotBeSkidding error whose recover_target_loc is the
\* planner's target location.
C19_SkiddingIsRefused ==
    (PlanReturned /\ IsSkidding(planCtx.start)) =>
        planned.ret = Err(MustNotBeSkidding(planCtx.target_loc))

\* The first segment of a plan: of a Chain its first link.
FirstSegment(plan) ==
    IF plan.segment.kind = "Chain" THEN plan.segment.segments[1] ELSE plan.segment

\* A planar vector and a planar rotation, read as those of a car on flat
\* ground: no height, no vertical speed, no pitch and no roll.
Flat(v) == <<v[1], v[2], 0>>

FlatRot(r) == <<r[1], 0, 0>>

\* C20: whenever GroundStraightPlanner.plan returns Ok, through StraightSimple
\* or through StraightWithDodge, the first segment of the plan starts at the
\* horizontal projection of the supplied start state: its location, rotation
\* and velocity are those of ctx.start without their vertical parts, and its
\* boost is that of ctx.start.
C20_StartIsProjectedStart ==
    (PlanReturned /\ planned.ret.ok) =>
        LET first == FirstSegment(planned.ret.plan)
        IN /\ first.kind = "Straight"
           /\ first.start.loc = to_2d(planCtx.start.loc)
           /\ first.start.rot = rot_to_2d(planCtx.start.rot)
           /\ first.start.vel = to_2d(planCtx.start.vel)
           /\ first.start.boost = planCtx.start.boost

\* A plan through StraightWithDodge, for a car with boost that is above its
\* resting height, pitched and sinking.
C20_Witness ==
    /\ PlanReturned
    /\ planned.ret.ok
    /\ planned.ret.plan.segment.kind = "Chain"
    /\ planCtx.start.boost > 0
    /\ planCtx.start.loc[3] # 0
    /\ planCtx.start.rot[2] # 0
    /\ planCtx.start.vel[3] # 0

\* C20 as stated: the location, rotation, velocity and boost of the first
\* segment's start equal those of ctx.start.
C20_StartCarriedExactly ==
    (PlanReturned /\ planned.ret.ok) =>
        LET first == FirstSegment(planned.ret.plan)
        IN /\ Flat(first.start.loc) = planCtx.start.loc
           /\ FlatRot(first.start.rot) = planCtx.start.rot
           /\ Flat(first.start.vel) = planCtx.start.vel
           /\ first.start.boost = planCtx.start.boost

(***************************************************************************)
(* Properties of StraightDodgeCalculator.                                  *)
(***************************************************************************)
DodgeChosen == dodgeOut.op = "choose"

\* The approach after k steps of the search.
RECURSIVE Approach(_, _)
Approach(calc, k) ==
    IF k = 0
    THEN Car1D_new(calc.start_speed, calc.boost)
    ELSE Car1D_multi_step(Approach(calc, k - 1), GRANULARITY, 1, TRUE)

\* C21: every dodge the search accepted passes the three checks: approach
\* time + dodge duration + end_chop coast time is at most the target time,
\* when one is given; approach + dodge + end_chop coast distance is strictly
\* less than the distance to the target; and, when a target time is given,
\* coasting on until the target time does not carry the car past the target.
C21_AcceptedDodgesAreFeasible ==
    DodgeChosen =>
        \A k \in 1..Len(dodgeOut.dodges) :
            LET approach == Approach(dodgeCalc, k)
                dodge == dodgeOut.dodges[k].dodge
                chop == dodge_end(dodgeCalc, approach)
                time == approach.time + dodge.duration + dodgeCalc.end_chop
                dist == approach.distance + dodge.end_dist + chop.distance
            IN /\ dodgeOut.dodges[k].approach_distance = approach.distance
               /\ dodgeCalc.target_time # NoneOpt => time <= dodgeCalc.target_time[1]
               /\ dist < dodgeCalc.target_traveled
               /\ dodgeCalc.target_time # NoneOpt =>
                      dist + Car1D_multi_step(
                                 Car1D_new(dodge.end_speed, approach.boost),
                                 dodgeCalc.target_time[1] - time, 0, FALSE).distance
                          <= dodgeCalc.target_traveled

\* A search with a target time and an end chop that accepted two dodges.
C21_Witness ==
    /\ DodgeChosen
    /\ dodgeCalc.target_time # NoneOpt
    /\ dodgeCalc.end_chop > 0
    /\ Len(dodgeOut.dodges) >= 2

\* The stepped offsets that pass the three checks, and their scores.  No
\* approach of more than MaxOffsets steps stops short of the target.
Passing(calc) ==
    {k \in 1..MaxOffsets :
        /\ calc.target_time # NoneOpt => Approach(calc, k - 1).time < calc.target_time[1]
        /\ evaluate(calc, Approach(calc, k)) # NoneOpt}

ScoreAt(calc, k) == evaluate(calc, Approach(calc, k))[1].score

\* C22: the dodge StraightWithDodge chooses has the lowest score among all
\* stepped offsets that pass the three checks, and MovingTooFast is returned
\* only when no stepped offset passes them: an offset that fails does not
\* keep later passing offsets from being considered.
C22_ChosenIsBestOfAllPassing ==
    DodgeChosen =>
        /\ ~dodgeOut.ret.ok => Passing(dodgeCalc) = {}
        /\ dodgeOut.ret.ok =>
               \A k \in Passing(dodgeCalc) :
                   dodgeOut.ret.dodge[1].score <= ScoreAt(dodgeCalc, k)

WithEndChop(calc, end_chop) == [calc EXCEPT !.end_chop = end_chop]

\* C23: for a fixed start state and target location and no target time, if
\* end_chop1 <= end_chop2 and a dodge is chosen for both, the score of the
\* dodge chosen for end_chop2 is not smaller than that for end_chop1.
C23_ScoreMonotoneInEndChop ==
    (DodgeChosen /\ dodgeCalc.target_time = NoneOpt /\ dodgeOut.ret.ok) =>
        \A end_chop2 \in dodgeCalc.end_chop..MaxEndChop :
            LET other == choose_dodge(WithEndChop(dodgeCalc, end_chop2))
            IN other.ok => other.dodge[1].score >= dodgeOut.ret.dodge[1].score

\* Without a target time a dodge is chosen for no end chop and for the
\* longest one, and the longer end chop costs time.
C23_Witness ==
    /\ DodgeChosen
    /\ dodgeCalc.target_time = NoneOpt
    /\ dodgeCalc.end_chop = 0
    /\ dodgeOut.ret.ok
    /\ choose_dodge(WithEndChop(dodgeCalc, MaxEndChop)).ok
    /\ choose_dodge(WithEndChop(dodgeCalc, MaxEndChop)).dodge[1].score
           > dodgeOut.ret.dodge[1].score

(***************************************************************************)
(* Properties of Brain::tick.                                              *)
(***************************************************************************)
InRange(x) == ~x.nan /\ -CLAMP_MAX <= x.v /\ x.v <= CLAMP_MAX

\* C24: for every command the runner produces, the command Brain.tick
\* returns has Throttle, Steer, Pitch, Yaw and Roll within [-1, 1]: a value
\* already in range is unchanged, a value outside is replaced by the nearer
\* bound; Jump, Boost and Handbrake are unchanged.
C24_CommandIsClamped ==
    brainOut.status = "returned" =>
        /\ \A a \in Axes :
               LET x == brainIn.axes[a]
                   y == brainOut.axes[a]
               IN /\ InRange(y)
                  /\ InRange(x) => y = x
                  /\ gt(x, F(CLAMP_MAX)) => y = F(CLAMP_MAX)
                  /\ lt(x, F(-CLAMP_MAX)) => y = F(-CLAMP_MAX)
        /\ brainOut.buttons = brainIn.buttons

\* A command with a throttle above the range, a steer below it, a pitch
\* within it and the jump button pressed came back.
C24_Witness ==
    /\ brainOut.status = "returned"
    /\ brainIn.axes["Throttle"] = F(15)
    /\ brainIn.axes["Steer"] = F(-15)
    /\ brainIn.axes["Pitch"] = F(4)
    /\ brainIn.buttons["Jump"]

Malformed(in) ==
    \/ in.enemy_time # NoneOpt /\ in.enemy_time[1].nan
    \/ in.plan_duration.nan

\* C25: when the snapshot is malformed (a NaN reaches an intercept time or a
\* plan duration), the tick still ends by emitting the all-zero default
\* command: no panic leaves Brain.tick.
C25_MalformedGivesSafeDefault ==
    (brainOut.status # "none" /\ Malformed(brainIn)) => brainOut = SafeDefault

(***************************************************************************)
(* Properties of SameBallTrajectory.                                       *)
(***************************************************************************)
\* C26: SameBallTrajectory.execute_old returns Abort when the 2-D distance
\* between the recorded predicted ball location and the current prediction
\* for the recorded game time is more than ERROR_THRESHOLD, and otherwise
\* returns no action and goes on (with a new record).
C26_AbortWhenFartherThanThreshold ==
    (sbtOut.called /\ sbtOut.before.prediction # NoneOpt) =>
        LET error2 == norm_2d_squared(sbtOut.before.prediction[1].loc,
                                      eval_frame(sbtOut.before, sbtCtx).payload)
        IN IF error2 > ERROR_THRESHOLD * ERROR_THRESHOLD
           THEN sbtOut.action = Some(Abort)
           ELSE sbtOut.action = NoneOpt /\ sbt.prediction # NoneOpt

\* The frame SNAPSHOT_DELAY ahead in the prediction of the tick, or its last.
SnapshotFrame ==
    IF \E i \in 1..Len(sbtCtx.frames) : sbtCtx.frames[i].t >= SNAPSHOT_DELAY
    THEN sbtCtx.frames[CHOOSE i \in 1..Len(sbtCtx.frames) :
                          /\ sbtCtx.frames[i].t >= SNAPSHOT_DELAY
                          /\ \A j \in 1..(i - 1) : sbtCtx.frames[j].t < SNAPSHOT_DELAY]
    ELSE sbtCtx.frames[Len(sbtCtx.frames)]

\* C39: SameBallTrajectory never aborts on its first execute_old call (no
\* recorded prediction); on every call that does not abort it replaces the
\* recorded prediction with the ball location predicted 0.1 s ahead (or the
\* last frame) stamped with the corresponding absolute game time; on a call
\* that aborts the recorded prediction is left unchanged.
C39_SnapshotReplacedUnlessAbort ==
    sbtOut.called =>
        /\ sbtOut.before.prediction = NoneOpt => sbtOut.action # Some(Abort)
        /\ sbtOut.action # Some(Abort) =>
               sbt.prediction = Some([t |-> sbtCtx.time + SnapshotFrame.t,
                                      loc |-> SnapshotFrame.payload])
        /\ sbtOut.action = Some(Abort) => sbt = sbtOut.before

\* A later call that goes on: the record is replaced by another one, taken
\* from the last frame of a prediction that ends before 0.1 s.
C39_Witness ==
    /\ sbtOut.called
    /\ sbtOut.before.prediction # NoneOpt
    /\ sbtOut.action = NoneOpt
    /\ sbt # sbtOut.before
    /\ sbtCtx.frames[Len(sbtCtx.frames)].t < SNAPSHOT_DELAY

(***************************************************************************)
(* Properties of TepidHit.                                                 *)
(***************************************************************************)
WallChain ==
    Call(Chain_new("Striking", <<Leaf("FollowRoute(WallIntercept)"), Leaf("WallHit")>>))

GroundChain ==
    Call(Chain_new("Striking",
                   <<Leaf("FollowRoute(GroundIntercept)"), Leaf("GroundedHit")>>))

\* C27: TepidHit selects the hit of the smallest estimated time among the
\* feasible ones; when the ground and the wall estimate are equal, or when
\* no hit is feasible, it selects the ground hit; it selects the wall hit
\* only when a wall estimate exists and is strictly smaller than any ground
\* estimate.
C27_FastestHitGroundOnTies ==
    tepidOut.op = "execute" =>
        LET g == ground(tepidCtx.hit)
            w == wall(tepidCtx.hit)
        IN /\ tepidOut.action \in {WallChain, GroundChain}
           /\ tepidOut.action = WallChain <=>
                  (w # NoneOpt /\ (g # NoneOpt => w[1].duration < g[1].duration))

\* Both hits are feasible with the same estimate, and the ground hit is
\* called.
C27_Witness ==
    /\ tepidOut.op = "execute"
    /\ ground(tepidCtx.hit) # NoneOpt
    /\ wall(tepidCtx.hit) # NoneOpt
    /\ ground(tepidCtx.hit)[1].duration = wall(tepidCtx.hit)[1].duration
    /\ tepidOut.action = GroundChain

\* The aim time_wasting_hit settles on, for either of its choices.
AimOf(ctx) ==
    IF abs(ctx.naive_offense) < abs(ctx.naive_defense) THEN ctx.toward ELSE ctx.away

\* C28: time_wasting_hit never returns Ok with an aim point the wall-ray
\* calculation classifies as the own goal: it returns Err exactly when the
\* wall of the projected aim point is Wall::OwnGoal, whether it aims toward
\* the enemy goal or away from the own goal.
C28_NeverAimsAtOwnGoal ==
    tepidOut.op = "aim" =>
        /\ ~tepidOut.aim.ok <=> AimOf(tepidCtx.aim).wall = "OwnGoal"
        /\ tepidOut.aim.ok =>
               /\ tepidOut.aim.target[1].aim_loc = AimOf(tepidCtx.aim)
               /\ tepidOut.aim.target[1].aim_loc.wall # "OwnGoal"

\* The hit away from the own goal would end in the own goal and is refused.
C28_Witness ==
    /\ tepidOut.op = "aim"
    /\ abs(tepidCtx.aim.naive_offense) >= abs(tepidCtx.aim.naive_defense)
    /\ tepidCtx.aim.away.wall = "OwnGoal"
    /\ ~tepidOut.aim.ok

(***************************************************************************)
(* Properties of iter_step_by.                                             *)
(***************************************************************************)
\* C30: iter_step_by(dt) yields the first frame and then frames whose
\* timestamps are exactly dt apart, each carrying dt as its dt field, and
\* it rejects any dt that is not a whole multiple of the frame spacing
\* instead of rounding the stride.
C30_StepIsExactOrRejected ==
    stepOut.done =>
        IF ~integral(stepIn.dt, stepIn.fdt)
        THEN stepOut.out.panicked
        ELSE LET fs == stepOut.out.frames
             IN /\ ~stepOut.out.panicked
                /\ Len(fs) >= 1
                /\ fs[1].t = 0
                /\ \A k \in 1..Len(fs) : fs[k].dt = stepIn.dt
                /\ \A k \in 1..(Len(fs) - 1) : fs[k + 1].t - fs[k].t = stepIn.dt

(***************************************************************************)
(* More properties of GroundStraightPlanner.                               *)
(***************************************************************************)
\* C36: GroundStraightPlanner.plan returns Ok whenever the start state is on
\* flat ground, not skidding and facing the target; its only errors are
\* MustBeOnFlatGround, MustNotBeSkidding and MustBeFacingTarget: the
\* MovingTooFast of the dodge sub-planner never reaches the caller.
C36_MovingTooFastIsSwallowed ==
    PlanReturned =>
        /\ (/\ ~NotOnFlatGround(planCtx.start)
            /\ ~IsSkidding(planCtx.start)
            /\ ~NotFacingTarget2D(planCtx.target_loc, planCtx.start)) =>
               planned.ret.ok
        /\ ~planned.ret.ok =>
               planned.ret.err.kind \in
                   {"MustBeOnFlatGround", "MustNotBeSkidding", "MustBeFacingTarget"}

\* The dodge sub-planner found no dodge and said MovingTooFast; the plan is
\* the one of StraightSimple.
C36_Witness ==
    /\ PlanReturned
    /\ StraightWithDodge_plan(planCtx) = Err(MovingTooFast)
    /\ planned.ret = StraightSimple_plan(planCtx)
    /\ planned.ret.ok

(***************************************************************************)
(* Properties of BlitzToLocation.                                          *)
(***************************************************************************)
\* C38: in BlitzToLocation the speed assumed for the wavedash distance
\* estimate is the current speed plus the forward dodge impulse, capped at
\* the car's maximum speed, so it never exceeds CAR_MAX_SPEED; and a
\* wavedash is tail-called only when the car is on the ground with a speed
\* below 2200 and the boost branch of the same tick was not taken.
C38_WavedashSpeedIsCapped ==
    blitzOut.called =>
        /\ blitzOut.wavedash_speed # NoneOpt =>
               /\ blitzOut.wavedash_speed[1] <= CAR_MAX_SPEED
               /\ blitzOut.wavedash_speed[1] =
                      Min(blitzCtx.speed + DODGE_FORWARD_IMPULSE, CAR_MAX_SPEED)
        /\ blitzOut.action.type = "TailCall" =>
               /\ blitzCtx.OnGround
               /\ blitzCtx.speed < WAVEDASH_MAX_SPEED
               /\ ~should_boost(blitzCtx)

\* The second half of C38 alone: when a wavedash is tail-called.
WavedashOnlyOnGroundBelowSupersonic ==
    (blitzOut.called /\ blitzOut.action.type = "TailCall") =>
        /\ blitzCtx.OnGround
        /\ blitzCtx.speed < WAVEDASH_MAX_SPEED
        /\ ~should_boost(blitzCtx)

(***************************************************************************)
(* Properties of avoid_smacking_goal_wall_waypoint.                        *)
(***************************************************************************)
\* Driving straight ahead from beyond the goal line leaves through the goal
\* mouth: the car heads for the field and crosses the goal line strictly
\* between the posts.
LeavesThroughGoalMouth(st) ==
    /\ st.ray_y * signum(st.y) < 0
    /\ abs(cross_x_times_ray_y(st)) < GOALPOST_X * abs(st.ray_y)

WaypointPlaced(st, w) ==
    /\ abs(w.x) = GOALPOST_X - margin
    /\ w.y = (FIELD_MAX_Y - margin) * signum(st.y)
    /\ abs(w.x) < GOALPOST_X
    /\ abs(w.y) < FIELD_MAX_Y

\* C33: avoid_smacking_goal_wall_waypoint returns None for every start inside
\* the field; for a start beyond the goal line it returns a waypoint exactly
\* when driving straight ahead would hit the goal's wall instead of leaving
\* through the goal mouth; every waypoint has |x| = GOALPOST_X - 125 and
\* |y| = FIELD_MAX_Y - 125 on the car's side, between the posts and inside
\* the field.
C33_WaypointIffHeadingForGoalWall ==
    pathOut.called =>
        /\ abs(pathStart.y) < FIELD_MAX_Y => pathOut.waypoint = NoneOpt
        /\ abs(pathStart.y) > FIELD_MAX_Y =>
              (pathOut.waypoint # NoneOpt <=> ~LeavesThroughGoalMouth(pathStart))
        /\ pathOut.waypoint # NoneOpt =>
              WaypointPlaced(pathStart, pathOut.waypoint[1])

\* What the code does guarantee: no waypoint inside the field, a waypoint
\* only when the car is heading for the goal's wall, and its placement.
WaypointOnlyWhenHeadingForGoalWall ==
    pathOut.called =>
        /\ abs(pathStart.y) < FIELD_MAX_Y => pathOut.waypoint = NoneOpt
        /\ pathOut.waypoint # NoneOpt =>
              /\ ~LeavesThroughGoalMouth(pathStart)
              /\ WaypointPlaced(pathStart, pathOut.waypoint[1])

\* A car beyond the goal line facing the back of the net gets no waypoint.
FacingBackOfNetUnwarned ==
    /\ pathOut.called
    /\ abs(pathStart.y) > FIELD_MAX_Y
    /\ pathStart.ray_y * signum(pathStart.y) > 0
    /\ pathOut.waypoint = NoneOpt

(***************************************************************************)
(* Properties of simulate_ball_blitz.                                      *)
(***************************************************************************)
SimTrajectory == SpacedTrajectory(simIn.fdt, simIn.n)

\* The examined frames are in time order, and at each of them the car has
\* been advanced by the time that passed since the trajectory's start.
ExaminedInStepWithTheCar ==
    /\ \A k \in 1..Len(simOut.examined) - 1 :
          simOut.examined[k].t < simOut.examined[k + 1].t
    /\ \A k \in 1..Len(simOut.examined) :
          simOut.examined[k].sim_time
              = simOut.examined[k].t - start(SimTrajectory).t

Reached(k) == simOut.examined[k].distance >= simOut.examined[k].dist_to_ball

\* None iff no examined frame was reached; otherwise the time of the first
\* trajectory frame at or after (reached frame's time + penalty), or of the
\* last frame.
InterceptIsATrajectoryFrame ==
    LET fs == SimTrajectory
        n == Len(simOut.examined)
    IN /\ simOut.time = NoneOpt <=> \A k \in 1..n : ~Reached(k)
       /\ simOut.time # NoneOpt =>
             LET due == simOut.examined[n].t + simIn.penalty
                 time == simOut.time[1]
             IN /\ Reached(n)
                /\ \E i \in 1..Len(fs) : fs[i].t = time
                /\ IF due > last(fs).t
                   THEN time = last(fs).t
                   ELSE /\ time >= due
                        /\ \A i \in 1..Len(fs) : fs[i].t >= due => fs[i].t >= time
                /\ time <= last(fs).t

\* C31: simulate_ball_blitz examines the resampled frames in time order with
\* the car advanced by exactly the elapsed frame time at each frame, returns
\* None iff the travelled distance never reaches the distance to the ball at
\* an examined frame, and otherwise reports the time of an actual trajectory
\* frame: the first at or after (reached frame's time + penalty), or the
\* last; the reported time never exceeds the trajectory's last timestamp.
C31_BlitzInterceptIsAFrameInStep ==
    (simOut.done /\ ~simOut.panicked) =>
        /\ ExaminedInStepWithTheCar
        /\ InterceptIsATrajectoryFrame

\* What holds whatever the stride: the second and third part of C31.
BlitzInterceptIsAFrame ==
    (simOut.done /\ ~simOut.panicked) => InterceptIsATrajectoryFrame

\* With a step that is a multiple of the frame spacing the car is in step.
BlitzInStepWhenStepDivides ==
    (simOut.done /\ ~simOut.panicked /\ integral(BLITZ_STEP, simIn.fdt))
        => ExaminedInStepWithTheCar

(***************************************************************************)
(* Properties of Wavedash.                                                 *)
(***************************************************************************)
\* q is the phase right after p in Jump, Adjust, Wait, Dodge,
\* FollowThrough, Finished.
Succ(p, q) == \E i \in 1 .. Len(Phases) - 1 : Phases[i] = p /\ Phases[i + 1] = q

\* The time since the current phase was entered (since this first execute
\* for a task that never ran).
SincePhaseEntered == wdCtx.time - get_or_insert(wdEntered, wdCtx.time)

\* C6: the phase only ever changes to its immediate successor; Return is
\* issued only in Finished; and the elapsed time each phase's guards test
\* is the time since that phase was entered (since the first execute, for
\* Jump).
C6_PhasesInOrder ==
    [][ /\ wd'.phase # wd.phase => Succ(wd.phase, wd'.phase)
        /\ wdAction'.type = "Return" =>
              wd.phase = "Finished" /\ wd'.phase = "Finished"
        /\ (wdPc = "exec" /\ wd.phase # "Finished") =>
              execute_old_body(wd, wdCtx).elapsed = SincePhaseEntered
      ]_vars

\* A Wavedash went through every phase and returned; the phase start time
\* it holds is older than its entry into Finished, which tests no time.
C6_Witness ==
    /\ wdAction.type = "Return"
    /\ wd.phase = "Finished"
    /\ wdPc = "done"
    /\ wd.phase_start_time # NoneOpt
    /\ wdEntered # NoneOpt
    /\ wd.phase_start_time[1] + FOLLOW_THROUGH_TIME <= wdEntered[1]

\* The phases whose transition guard tests the elapsed time.
ElapsedGuarded == {"Jump", "Dodge", "FollowThrough"}

\* C32: a call of Wavedash.execute_old re-enters itself only right after a
\* phase change, at most five times, and returns exactly one Action; the
\* step re-entered after a change into a phase that tests the elapsed time
\* sees an elapsed time of 0 (all but Finished, which tests none and is
\* entered without a new phase start time), so two consecutive
\* elapsed-time-guarded phases are never both passed in the same call.
C32_ReentersAfterPhaseChangeOnly ==
    [][ /\ wdDepth' <= Len(Phases) - 1
        /\ wdPc = "exec" =>
              /\ wdDepth' > wdDepth <=> wd'.phase # wd.phase
              /\ wdDepth' > wdDepth => (wdPc' = "exec" /\ wdAction' = NoAction)
              /\ wdDepth' = wdDepth =>
                    /\ wdPc' # "exec"
                    /\ wdAction'.type \in {"Yield", "Abort", "Return"}
              /\ (wdDepth > 0 /\ wd.phase # "Finished") =>
                    execute_old_body(wd, wdCtx).elapsed = 0
              /\ (wdDepth > 0 /\ wd.phase \in ElapsedGuarded) =>
                    (wd'.phase = wd.phase /\ wdPc' # "exec")
      ]_vars

\* One call went from Jump through Adjust and Wait into Dodge, where it
\* stopped and yielded the dodge input.
C32_Witness ==
    /\ wdDepth = 3
    /\ wd.phase = "Dodge"
    /\ wdAction.type = "Yield"
    /\ wdAction.input.Jump

\* C32 as stated: every re-entered step sees an elapsed time of 0.
C32_ReenteredElapsedIsZero ==
    (wdPc = "exec" /\ wdDepth > 0) => execute_old_body(wd, wdCtx).elapsed = 0

\* The latest tick of LiveDTs.
MaxLiveDT == CHOOSE d \in LiveDTs : \A e \in LiveDTs : e <= d

\* Four times the time a phase may be occupied before its guard or its
\* abort condition holds (1.25 x DODGE_WAIT_TIME is not a whole number).
PhaseLimit4(p) ==
    CASE p = "Jump" -> 4 * JUMP_INPUT_TIME
      [] p = "Adjust" -> 8 * PITCH_ADJUSTMENT_TIME
      [] p = "Wait" -> 5 * DODGE_WAIT_TIME
      [] p = "Dodge" -> 4 * JUMP_INPUT_TIME
      [] p = "FollowThrough" -> 4 * FOLLOW_THROUGH_TIME
      [] OTHER -> 0

\* Four times JUMP_INPUT_TIME + 2 x PITCH_ADJUSTMENT_TIME + 1.25 x
\* DODGE_WAIT_TIME + JUMP_INPUT_TIME + FOLLOW_THROUGH_TIME plus one tick per
\* phase.
TotalLimit4 ==
    PhaseLimit4("Jump") + PhaseLimit4("Adjust") + PhaseLimit4("Wait")
        + PhaseLimit4("Dodge") + PhaseLimit4("FollowThrough") + 4 * 5 * MaxLiveDT

\* The latest game time of the first execute.
LatestStart == (CHOOSE t \in InitTimes : \A u \in InitTimes : u <= t) + MaxLiveDT

\* C34: with a game clock that strictly advances between ticks, a Wavedash
\* executed every tick eventually returns Return or Abort, whatever the
\* car's physics are; no phase is occupied for longer than its time limit
\* plus one tick, and the whole takes JUMP_INPUT_TIME + 2 x
\* PITCH_ADJUSTMENT_TIME + 1.25 x DODGE_WAIT_TIME + JUMP_INPUT_TIME +
\* FOLLOW_THROUGH_TIME plus one tick per phase at most.  (Every task that
\* waits for its next tick gets it: the clock of the model stops later.)
C34_WavedashEnds ==
    /\ [](wdPc \in {"idle", "exec"} =>
            /\ 4 * SincePhaseEntered <= PhaseLimit4(wd.phase) + 4 * MaxLiveDT
            /\ 4 * wdCtx.time <= 4 * LatestStart + TotalLimit4)
    /\ [](wdPc = "idle" => wdCtx.time + MaxLiveDT <= MaxLiveTime)
    /\ <>(wdPc = "done" /\ wdAction.type \in {"Return", "Abort"})

\* A Wavedash that waited for the ground for more than 1.25 x
\* DODGE_WAIT_TIME and was aborted.
C34_Witness ==
    /\ wdPc = "done"
    /\ wdAction.type = "Abort"
    /\ wd.phase = "Wait"
    /\ 4 * SincePhaseEntered > 5 * DODGE_WAIT_TIME

\* The phase in which the call under way was entered: every re-entry moved
\* on by one phase.
PhaseIndex(p) == CHOOSE i \in 1 .. Len(Phases) : Phases[i] = p

CallBeganIn == Phases[PhaseIndex(wd.phase) - wdDepth]

\* C35: in every run of Wavedash that reaches the Dodge phase, a command
\* with Jump = false is emitted between the last command of the Jump phase
\* and the first command of the Dodge phase; the commands of Adjust, Wait
\* and FollowThrough never have Jump set.  A call yields one command at
\* most, and a call that begins in Jump was preceded by a command of the
\* Jump phase: the release is there exactly when the call that enters Dodge
\* began in Adjust or in Wait, where the call before it yielded.
C35_JumpReleasedBeforeDodge ==
    [][ wdPc = "exec" =>
          /\ (wdAction'.type = "Yield"
                 /\ wd'.phase \in {"Adjust", "Wait", "FollowThrough"}) =>
                ~wdAction'.input.Jump
          /\ (wdAction'.type = "Yield" /\ wd'.phase \in {"Jump", "Dodge"}) =>
                wdAction'.input.Jump
          /\ (wd.phase = "Wait" /\ wd'.phase = "Dodge") =>
                CallBeganIn \in {"Adjust", "Wait"}
      ]_vars

PitchDelta == wdCtx.pitch - get_or_insert(wd.starting_pitch, wdCtx.pitch)

NearGroundAndDescending == wdCtx.loc_z <= WAIT_LOC_Z /\ wdCtx.vel_z < 0

\* The transition guard of the current phase holds in this tick.
TransitionGuard ==
    CASE wd.phase = "Jump" -> SincePhaseEntered >= JUMP_INPUT_TIME
      [] wd.phase = "Adjust" -> PitchDelta >= PITCH_DELTA_MIN
      [] wd.phase = "Wait" -> NearGroundAndDescending
      [] wd.phase = "Dodge" -> SincePhaseEntered >= JUMP_INPUT_TIME
      [] wd.phase = "FollowThrough" -> SincePhaseEntered >= FOLLOW_THROUGH_TIME
      [] OTHER -> FALSE

\* The abort condition of the current phase holds in this tick.
AbortCondition ==
    CASE wd.phase = "Jump" -> ~wdCtx.OnGround
      [] wd.phase = "Adjust" -> SincePhaseEntered > 2 * PITCH_ADJUSTMENT_TIME
      [] wd.phase = "Wait" ->
            \/ 4 * SincePhaseEntered > 5 * DODGE_WAIT_TIME
            \/ wdCtx.DoubleJumped
      [] wd.phase = "Dodge" -> wdCtx.OnGround
      [] OTHER -> FALSE

\* C7: an evaluation of execute_old returns Abort exactly when the abort
\* condition of its phase holds and the phase's transition guard does not
\* (Jump: not on the ground before the hold time; Adjust: more than twice
\* PITCH_ADJUSTMENT_TIME without the pitch change; Wait: more than 1.25 x
\* DODGE_WAIT_TIME or double jump used, not near the ground and descending;
\* Dodge: on the ground before the hold time); never in FollowThrough or
\* Finished; and when guard and abort condition hold together the phase
\* changes.
C7_AbortExactlyWhen ==
    [][ wdPc = "exec" =>
          /\ (wdAction'.type = "Abort") <=> (AbortCondition /\ ~TransitionGuard)
          /\ TransitionGuard =>
                /\ wdPc' = "exec"
                /\ Succ(wd.phase, wd'.phase)
                /\ wdAction'.type # "Abort"
      ]_vars

\* In Wait the double jump was already used, and the car was near the
\* ground and descending in the same tick: the task moved on to Dodge.
C7_Witness ==
    /\ wdPc = "exec"
    /\ wdDepth >= 1
    /\ wd.phase = "Dodge"
    /\ wdCtx.DoubleJumped
    /\ NearGroundAndDescending
    /\ wdEntered = Some(wdCtx.time)

HasKind(st, kind) == \E i \in 1 .. Len(st) : st[i].kind = kind

\* The step executes the running task.
ExecuteStep == rpc = "resolve" /\ stack # <<>>

\* BlitzToLocation is about to hand over to its wavedash chain.
BlitzHandsOver ==
    /\ ExecuteStep
    /\ Top.kind = "BlitzToLocation"
    /\ snap.OnGround
    /\ snap.Boost = 0
    /\ snap.pitch < BLITZ_MAX_PITCH

C2_ForceIsNotInterrupted ==
    [][/\ rpc = "interrupt" /\ stack # <<>> /\ Behavior_priority(Top) = "Force" =>
              stack' = stack
       /\ rpc = "interrupt" /\ stack # <<>> /\ Top.kind = "Wavedash" =>
              stack' = stack
       /\ HasKind(stack, "Wavedash") /\ ~HasKind(stack', "Wavedash") =>
              /\ ExecuteStep
              /\ Top.kind = "Wavedash"
              /\ lastAction'.kind = "Wavedash"
              /\ lastAction'.type \in {"Return", "Abort"}]_vars

\* A tick has passed the interrupt check with a Wavedash in its last phase.
C2_Witness ==
    /\ rpc = "resolve"
    /\ lastAction = NoAction
    /\ stack # <<>>
    /\ Top.kind = "Wavedash"
    /\ Top.phase = "FollowThrough"

\* C3: every tick emits exactly one command, the payload of a Yield; after
\* a Return the parent, and after a Call the child, is executed in the same
\* tick before the command is emitted.
C3_OneCommandPerTick ==
    [][/\ ~stuck'
       /\ rpc' = "idle" =>
              /\ rpc = "resolve"
              /\ lastAction'.type = "Yield"
              /\ command = NoCommand
              /\ command' # NoCommand
       /\ ExecuteStep /\ lastAction'.type = "Return" /\ Len(stack) > 1 =>
              /\ rpc' = "resolve"
              /\ command' = NoCommand
              /\ stack' = Pop(stack)
       /\ ExecuteStep /\ lastAction'.type = "Call" =>
              /\ rpc' = "resolve"
              /\ command' = NoCommand
              /\ Pop(stack') = ReplaceTop(stack, stack'[Len(stack)])]_vars

\* C4: no tick's resolution is kept running by tasks that Call, Return or
\* tail-call: none executes the same stack twice with the same snapshot and
\* the same signal, which, execute being a function of these, is a
\* resolution that never reaches a Yield.
C4_ResolutionTerminates ==
    ~(stuck /\ lastAction.type \in {"Call", "Return", "TailCall"})

\* The first execute of a Wavedash, in the air.
WavedashJumpsInTheAir ==
    /\ ExecuteStep
    /\ Top.kind = "Wavedash"
    /\ Top.phase = "Jump"
    /\ Top.phase_start_time = NoneOpt
    /\ ~snap.OnGround

====
